---- MODULE Spec2Model ----
(***************************************************************************)
(* A model of the DDP outer loop of ocs2_ddp (DDP_BASE.h): forward rollout *)
(* across partitions, the greedy parallel line search, the iteration       *)
(* control of runImpl, reset and rewindOptimizer.                          *)
(*                                                                         *)
(* Conventions.  A std::vector is a sequence; the element the code calls   *)
(* v[k] is v[k+1] here.  Times are integers on a unit grid.  A learning    *)
(* rate is counted in units of 1/AlphaDen, so that 1.0 is AlphaDen and the *)
(* contraction by lineSearchContractionRate_ == 1/2 stays integral.        *)
(***************************************************************************)
EXTENDS Integers, Sequences, FiniteSets, TLC

\* ------------------------------------------------------------------ bounds
\* number of contractions that fit between the largest and the smallest rate
MaxAlphaExp == 2
\* largest number of partitions a partitioning handed to solve has
MaxPartitions == 2
\* largest cost a rollout evaluates to
MaxCost == 1
\* largest number of line-search workers (ddpSettings_.nThreads_)
MaxThreads == 2
\* largest ddpSettings_.maxNumIterations_
MaxIterations == 3
\* largest state-input constraint ISE a rollout evaluates to
MaxISE == 1
\* largest number of calls (solve, reset, rewindOptimizer) made on one optimizer
MaxCalls == 2
\* largest number of those calls that are solves which pass the validation
MaxSolves == 1
\* largest number of calls in the scenarios of reset() followed by solve
MaxScenario == 4
\* dimension of the input (the template parameter INPUT_DIM)
InputDim == 1

\* ------------------------------------------------------- program constants
\* std::numeric_limits<scalar_t>::max(), the merit of a candidate that threw
ScalarMax == 100000
\* the factor 1e-3 of the descent condition, as its inverse
ArmijoInv == 1000
\* 1.0 / lineSearchContractionRate_
ContractionInv == 2
\* the learning rate 1.0 (reset() and the constructor set it) in model units
AlphaDen == ContractionInv ^ MaxAlphaExp
\* largest number of partitions and of workers the backward pass is
\* distributed over
MaxWorkPartitions == 4
MaxWorkThreads == 4
\* number of partitions of the rollouts whose controllers have gaps
ScanPartitions == 3
\* length of one partition of the partitionings used
PartitionLen == 2
\* the input and state an operating-point rollout emits
OperatingPoint == 0 - 1

\* ----------------------------------------------------------------- helpers
Min(a, b) == IF a < b THEN a ELSE b
Max(a, b) == IF a > b THEN a ELSE b
Abs(a) == IF a < 0 THEN 0 - a ELSE a

Back(s) == s[Len(s)]
PopBack(s) == SubSeq(s, 1, Len(s) - 1)
\* v[k] of the code
At(v, k) == v[k + 1]
Fill(n, x) == [k \in 1..n |-> x]
\* std::vector::resize: keeps the leading elements, value-initialises new ones
Resize(v, n, x) == [k \in 1..n |-> IF k <= Len(v) THEN v[k] ELSE x]

\* the elements of a finite set of integers in ascending order
SortedSeq(S) ==
    [k \in 1..Cardinality(S) |->
        CHOOSE x \in S : Cardinality({y \in S : y <= x}) = k]

Range(s) == {s[k] : k \in 1..Len(s)}

\* ------------------------------------------------ collaborators (not in src)
\* An affine time-varying controller (linear_controller_t).
EmptyController ==
    [timeStamp_ |-> <<>>, gainArray_ |-> <<>>, biasArray_ |-> <<>>, deltaBiasArray_ |-> <<>>]

ControllerEmpty(c) == c.timeStamp_ = <<>>

\* lookup::findBoundedActiveIntervalInTimeArray: the partition (t_i, t_i+1]
\* holding t, clipped to the first and the last partition.
FindBoundedActiveInterval(P, t) ==
    LET below == {i \in 0..(Len(P) - 2) : At(P, i) < t}
    IN  IF below = {} THEN 0 ELSE CHOOSE i \in below : \A j \in below : j <= i

\* The time stamps an integrator emits on [t0, t1]: one sample per grid time,
\* and a second sample of identical time after each event in (t0, t1), and
\* after an event at t1 when endEvent.
IntegrateFrom(t0, t1, events, endEvent) ==
    LET jumps == {e \in events : e > t0 /\ e <= t1 /\ (e < t1 \/ endEvent)}
        upTo(t) == (t - t0 + 1) + Cardinality({e \in jumps : e <= t})
    IN  [k \in 1..(IF t1 < t0 THEN 0 ELSE upTo(t1)) |->
            CHOOSE t \in t0..t1 : upTo(t - 1) < k /\ k <= upTo(t)]

\* rollout_base_t::run: time stamps, post-event indices and the samples of
\* state, input and model data (all of value `sample`) on [t0, t1].
IntegratorRun(t0, t1, events, endEvent, sample) ==
    LET time == IntegrateFrom(t0, t1, events, endEvent)
    IN  [time |-> time,
         postEvent |-> SortedSeq({k \in 1..(Len(time) - 1) : time[k] = time[k + 1]}),
         state |-> Fill(Len(time), sample),
         input |-> Fill(Len(time), sample),
         modelData |-> Fill(Len(time), sample)]

\* the sample a controller-driven integration emits: the feed-forward part
\* of the control law at the first time stamp of the controller
ControllerSample(c) == IF c.biasArray_ = <<>> THEN 0 ELSE c.biasArray_[1]

\* ------------------------------------------------------------------- state
VARIABLES
    \* the settings and the environment of the optimizer
    ddpSettings_,            \* DDP_Settings given to the constructor
    eventTimes,              \* getModeSchedule().eventTimes
    endEvent,                \* whether the integrators emit an event at the end time
    constrained,             \* whether the problem has state-input equality constraints
    faults,                  \* whether a rollout of the problem or its evaluation can throw
    problem,                 \* what the constraints and the penalty of the problem may report
    \* members of DDP_BASE
    numPartitions_, partitioningTimes_, initActivePartition_, finalActivePartition_,
    initTime_, finalTime_, iteration_, rewindCounter_,
    learningRateStar_, maxLearningRate_, nominalTotalCost_, baselineTotalCost_,
    stateInputEqConstraintISE_, stateEqConstraintISE_,
    stateEqFinalConstraintISE_, inequalityConstraintPenalty_,
    nominalControllersStock_,
    nominalTimeTrajectoriesStock_, nominalPostEventIndicesStock_,
    nominalStateTrajectoriesStock_, nominalInputTrajectoriesStock_,
    modelDataTrajectoriesStock_,
    cachedTimeTrajectoriesStock_, cachedPostEventIndicesStock_,
    cachedStateTrajectoriesStock_, cachedInputTrajectoriesStock_,
    cachedModelDataTrajectoriesStock_,
    SmFinalStock_, SvFinalStock_, SveFinalStock_, sFinalStock_, xFinalStock_,
    iterationCost_, iterationISE1_, iterationISE2_,
    \* the line search
    initLScontrollersStock_, alphaExpNext_, alphaProcessed_, nextTaskId_,
    killIntegration,         \* event_handler_t's process-wide kill flag
    evaluated,               \* what the dynamics and the cost made of each rollout so far
    task,                    \* the locals of each lineSearchTask
    \* the parallel sections over the time nodes of a partition
    nextTimeIndex_,
    parallel,                \* the section that is running, its partition and its record
    sectionTask,             \* the locals of each task of the section
    eigenNbThreads,          \* what Eigen::setNbThreads was last called with, 0 at first
    \* the partitions of each worker of the backward pass
    startingIndicesRiccatiWorker_, endingIndicesRiccatiWorker_,
    \* the calling thread
    pc,                      \* its position in runImpl
    call,                    \* the arguments and locals of the running runImpl
    thrown,                  \* what the last call threw, "none" when it returned
    hist                     \* history variables of the properties

settingsVars == <<ddpSettings_, eventTimes, endEvent, constrained, faults, problem>>
environmentVars == <<evaluated>>
partitionVars == <<numPartitions_, partitioningTimes_, initActivePartition_,
                   finalActivePartition_, initTime_, finalTime_>>
nominalVars == <<nominalTimeTrajectoriesStock_, nominalPostEventIndicesStock_,
                 nominalStateTrajectoriesStock_, nominalInputTrajectoriesStock_,
                 modelDataTrajectoriesStock_>>
cachedVars == <<cachedTimeTrajectoriesStock_, cachedPostEventIndicesStock_,
                cachedStateTrajectoriesStock_, cachedInputTrajectoriesStock_,
                cachedModelDataTrajectoriesStock_>>
riccatiVars == <<SmFinalStock_, SvFinalStock_, SveFinalStock_, sFinalStock_, xFinalStock_>>
performanceVars == <<nominalTotalCost_, stateInputEqConstraintISE_, stateEqConstraintISE_,
                     stateEqFinalConstraintISE_, inequalityConstraintPenalty_>>
logVars == <<iterationCost_, iterationISE1_, iterationISE2_>>
lineSearchVars == <<initLScontrollersStock_, alphaExpNext_, alphaProcessed_, nextTaskId_,
                    killIntegration, task>>
riccatiWorkerVars == <<startingIndicesRiccatiWorker_, endingIndicesRiccatiWorker_>>
parallelVars == <<nextTimeIndex_, parallel, sectionTask>>
vars == <<settingsVars, riccatiWorkerVars, parallelVars, eigenNbThreads, partitionVars, iteration_, rewindCounter_, learningRateStar_,
          maxLearningRate_, baselineTotalCost_, performanceVars, nominalControllersStock_,
          nominalVars, cachedVars, riccatiVars, logVars, lineSearchVars, evaluated, pc, call,
          thrown, hist>>

\* -------------------------------------------------------- rolloutTrajectory
\* lines 188-198: the unbroken run of non-empty controllers from initActive
ControllerRun(controllersStock) ==
    {i \in initActivePartition_..finalActivePartition_ :
        \A j \in initActivePartition_..i : ~ControllerEmpty(At(controllersStock, j))}

\* lines 190-198 without the break of line 196: the last non-empty
\* controller of the active partitions
PartitionOfLastNonEmpty(controllersStock) ==
    LET filled == {i \in initActivePartition_..finalActivePartition_ :
                      ~ControllerEmpty(At(controllersStock, i))}
    IN  IF filled = {} THEN initActivePartition_
        ELSE CHOOSE i \in filled : \A j \in filled : j <= i

PartitionOfLastController(controllersStock) ==
    LET run == ControllerRun(controllersStock)
    IN  IF run = {} THEN initActivePartition_
        ELSE CHOOSE i \in run : \A j \in run : j <= i

ControllerAvailableTill(controllersStock) ==
    IF ControllerRun(controllersStock) = {} THEN initTime_
    ELSE Back(At(controllersStock, PartitionOfLastController(controllersStock)).timeStamp_)

\* lines 206-215 without the test of line 207: the controller is used up to
\* the first event at or after controllerAvailableTill in any case
UseControllerTillFirstEvent(controllersStock) ==
    LET later == {k \in 1..Len(eventTimes) :
                     eventTimes[k] >= ControllerAvailableTill(controllersStock)}
    IN  IF later = {} THEN finalTime_
        ELSE Min(eventTimes[CHOOSE k \in later : \A l \in later : k <= l], finalTime_)

\* lines 206-215
UseControllerTill(controllersStock) ==
    IF ControllerEmpty(At(controllersStock, initActivePartition_)) THEN initTime_
    ELSE LET later == {k \in 1..Len(eventTimes) :
                          eventTimes[k] >= ControllerAvailableTill(controllersStock)}
         IN  IF later = {} THEN finalTime_
             ELSE Min(eventTimes[CHOOSE k \in later : \A l \in later : k <= l], finalTime_)

\* line 229 without std::max: the controller interval may end before it starts
ControllerRolloutToUnclamped(t0, tf, useControllerTill) == Min(useControllerTill, tf)

\* line 229: controllerRolloutFromTo.second
ControllerRolloutTo(t0, tf, useControllerTill) == Max(t0, Min(useControllerTill, tf))

\* what run returns into xCurrent (lines 249, 274): the state is counted as
\* the time integrated from the initial state
Flow(xCurrent, from, to) == xCurrent + (to - from)

\* lines 223-295: the calls of run the loop makes from partition i on with
\* xCurrent, in order, as records of the interval, the state handed in and
\* the state returned
RECURSIVE RolloutRuns(_, _, _)
RolloutRuns(controllersStock, i, xCurrent) ==
    IF i > finalActivePartition_ THEN <<>>
    ELSE LET t0 == IF i = initActivePartition_ THEN initTime_ ELSE At(partitioningTimes_, i)
             tf == IF i = finalActivePartition_ THEN finalTime_
                   ELSE At(partitioningTimes_, i + 1)
             to == ControllerRolloutTo(t0, tf, UseControllerTill(controllersStock))
             xMid == IF t0 < to THEN Flow(xCurrent, t0, to) ELSE xCurrent
             xEnd == IF to < tf THEN Flow(xMid, to, tf) ELSE xMid
             byController == IF t0 < to
                             THEN <<[kind |-> "controller", partition |-> i, from |-> t0,
                                     to |-> to, x0 |-> xCurrent, xf |-> xMid]>>
                             ELSE <<>>
             byOperatingPoints == IF to < tf
                                  THEN <<[kind |-> "operatingPoints", partition |-> i,
                                          from |-> to, to |-> tf, x0 |-> xMid, xf |-> xEnd]>>
                                  ELSE <<>>
         IN  byController \o byOperatingPoints \o RolloutRuns(controllersStock, i + 1, xEnd)

EmptyTrajectory ==
    [time |-> <<>>, postEvent |-> <<>>, state |-> <<>>, input |-> <<>>, modelData |-> <<>>]

\* lines 254-291 without the loop of lines 279-281: the indices of the tail
\* are left as the tail's integrator counted them
AppendUnshifted(head, from, tf) ==
    LET pop == head.postEvent # <<>> /\ Back(head.postEvent) = Len(head.time) - 1
        start == IF pop THEN Back(head.time) ELSE from
        kept == IF pop
                THEN [head EXCEPT !.time = PopBack(@), !.state = PopBack(@),
                                  !.input = PopBack(@), !.modelData = PopBack(@)]
                ELSE head
        tail == IntegratorRun(start, tf, Range(eventTimes), endEvent, OperatingPoint)
    IN  [time |-> kept.time \o tail.time,
         postEvent |-> kept.postEvent \o tail.postEvent,
         state |-> kept.state \o tail.state,
         input |-> kept.input \o tail.input,
         modelData |-> kept.modelData \o tail.modelData]

\* lines 254-291: the operating-point tail appended to what the controller
\* interval produced in a partition
AppendOperatingPoints(head, from, tf) ==
    LET pop == head.postEvent # <<>> /\ Back(head.postEvent) = Len(head.time) - 1
        start == IF pop THEN Back(head.time) ELSE from
        kept == IF pop
                THEN [head EXCEPT !.time = PopBack(@), !.state = PopBack(@),
                                  !.input = PopBack(@), !.modelData = PopBack(@)]
                ELSE head
        tail == IntegratorRun(start, tf, Range(eventTimes), endEvent, OperatingPoint)
        shifted == [k \in 1..Len(tail.postEvent) |-> tail.postEvent[k] + Len(kept.state)]
    IN  [time |-> kept.time \o tail.time,
         postEvent |-> kept.postEvent \o shifted,
         state |-> kept.state \o tail.state,
         input |-> kept.input \o tail.input,
         modelData |-> kept.modelData \o tail.modelData]

\* lines 225-295 with <= in the tests of lines 247 and 255: an interval of
\* length zero is rolled out as well
RolloutPartitionClosedIntervals(controllersStock, i) ==
    LET t0 == IF i = initActivePartition_ THEN initTime_ ELSE At(partitioningTimes_, i)
        tf == IF i = finalActivePartition_ THEN finalTime_ ELSE At(partitioningTimes_, i + 1)
        controllerTo == ControllerRolloutTo(t0, tf, UseControllerTill(controllersStock))
        controller == At(controllersStock, Min(i, PartitionOfLastController(controllersStock)))
        head == IF t0 <= controllerTo
                THEN IntegratorRun(t0, controllerTo, Range(eventTimes), endEvent,
                                   ControllerSample(controller))
                ELSE EmptyTrajectory
    IN  IF controllerTo <= tf THEN AppendOperatingPoints(head, controllerTo, tf) ELSE head

\* lines 225-295: the trajectory of partition i
RolloutPartition(controllersStock, i) ==
    LET t0 == IF i = initActivePartition_ THEN initTime_ ELSE At(partitioningTimes_, i)
        tf == IF i = finalActivePartition_ THEN finalTime_ ELSE At(partitioningTimes_, i + 1)
        controllerTo == ControllerRolloutTo(t0, tf, UseControllerTill(controllersStock))
        controller == At(controllersStock, Min(i, PartitionOfLastController(controllersStock)))
        head == IF t0 < controllerTo
                THEN IntegratorRun(t0, controllerTo, Range(eventTimes), endEvent,
                                   ControllerSample(controller))
                ELSE EmptyTrajectory
    IN  IF controllerTo < tf THEN AppendOperatingPoints(head, controllerTo, tf) ELSE head

\* lines 164-318 without the test of lines 297-299: a final state that is not
\* finite goes unnoticed
rolloutTrajectoryUnchecked(controllersStock, finite) ==
    IF Len(controllersStock) # numPartitions_ THEN [throws |-> "BadControllerStock"]
    ELSE LET part(i) == IF i \in initActivePartition_..finalActivePartition_
                        THEN RolloutPartition(controllersStock, i) ELSE EmptyTrajectory
         IN  [throws |-> "none",
              time |-> [k \in 1..numPartitions_ |-> part(k - 1).time],
              postEvent |-> [k \in 1..numPartitions_ |-> part(k - 1).postEvent],
              state |-> [k \in 1..numPartitions_ |-> part(k - 1).state],
              input |-> [k \in 1..numPartitions_ |-> part(k - 1).input],
              modelData |-> [k \in 1..numPartitions_ |-> part(k - 1).modelData]]

\* lines 164-318.  finite: whether the final state of the integration is
\* finite.  The output arguments are written before the check of line 297.
rolloutTrajectory(controllersStock, finite) ==
    IF Len(controllersStock) # numPartitions_ THEN [throws |-> "BadControllerStock"]
    ELSE LET part(i) == IF i \in initActivePartition_..finalActivePartition_
                        THEN RolloutPartition(controllersStock, i) ELSE EmptyTrajectory
         IN  [throws |-> IF finite THEN "none" ELSE "RolloutDiverged",
              time |-> [k \in 1..numPartitions_ |-> part(k - 1).time],
              postEvent |-> [k \in 1..numPartitions_ |-> part(k - 1).postEvent],
              state |-> [k \in 1..numPartitions_ |-> part(k - 1).state],
              input |-> [k \in 1..numPartitions_ |-> part(k - 1).input],
              modelData |-> [k \in 1..numPartitions_ |-> part(k - 1).modelData]]

\* ------------------------------------------------- cost, constraints, merit
\* What the evaluators of one rollout report (calculateRolloutConstraintsISE,
\* calculateRolloutCost): the integrated cost, the constraint ISEs and the
\* inequality penalty.
Evaluations ==
    [cost : 0..MaxCost, ISE1 : IF constrained THEN 0..MaxISE ELSE {0},
     ISE2 : problem.stateISEs, ISE2Final : problem.finalISEs, penalty : problem.penalties]

\* The numbers of active constraints the system constraints report at a time
\* stamp (numStateInputConstraint, numStateOnlyConstraint and
\* numStateOnlyFinalConstraint): none before the time stamp from, and the
\* given numbers from then on.
ConstraintReports ==
    [nc1 : 0..(InputDim + 1), nc2 : 0..(InputDim + 1), nc2Final : 0..(InputDim + 1),
     from : {0, PartitionLen}]

ZeroReport == [nc1 |-> 0, nc2 |-> 0, nc2Final |-> 0, from |-> 0]

OverflowReport == [nc1 |-> InputDim + 1, nc2 |-> 0, nc2Final |-> 0, from |-> 0]

ReportedCount(count, report, time) == IF time >= report.from THEN count ELSE 0

\* reports in which one kind of constraint is active
SingleKindReports ==
    {r \in ConstraintReports :
        Cardinality({f \in {"nc1", "nc2", "nc2Final"} : r[f] # 0}) <= 1}

\* lines 356-396 without the tests of the counts against the input dimension
RECURSIVE calculateConstraintsWorkerUnchecked(_, _, _, _, _)
calculateConstraintsWorkerUnchecked(k, itr, timeTrajectory, eventsPastTheEndIndeces, report) ==
    IF k = Len(timeTrajectory)
    THEN [throws |-> "none", nc1Trajectory |-> <<>>, nc2Trajectory |-> <<>>, nc2Finals |-> <<>>]
    ELSE LET nc1 == ReportedCount(report.nc1, report, At(timeTrajectory, k))
             nc2 == ReportedCount(report.nc2, report, At(timeTrajectory, k))
             nc2Final == ReportedCount(report.nc2Final, report, At(timeTrajectory, k))
             atEvent == /\ itr <= Len(eventsPastTheEndIndeces)
                        /\ k + 1 = eventsPastTheEndIndeces[itr]
             rest == calculateConstraintsWorkerUnchecked(
                         k + 1, IF atEvent THEN itr + 1 ELSE itr,
                         timeTrajectory, eventsPastTheEndIndeces, report)
         IN  [throws |-> "none",
              nc1Trajectory |-> <<nc1>> \o rest.nc1Trajectory,
              nc2Trajectory |-> <<nc2>> \o rest.nc2Trajectory,
              nc2Finals |-> IF atEvent THEN <<nc2Final>> \o rest.nc2Finals
                            ELSE rest.nc2Finals]

\* lines 356-396 (the loop of calculateConstraintsWorker over the nodes of one
\* partition, from node k on, itr being the position of eventsPastTheEndItr):
\* the counts of each node, and the count of the final constraints at each
\* node that precedes a post-event index; a count above the input dimension
\* throws
RECURSIVE calculateConstraintsWorker(_, _, _, _, _)
calculateConstraintsWorker(k, itr, timeTrajectory, eventsPastTheEndIndeces, report) ==
    IF k = Len(timeTrajectory)
    THEN [throws |-> "none", nc1Trajectory |-> <<>>, nc2Trajectory |-> <<>>, nc2Finals |-> <<>>]
    ELSE LET nc1 == ReportedCount(report.nc1, report, At(timeTrajectory, k))
             nc2 == ReportedCount(report.nc2, report, At(timeTrajectory, k))
             nc2Final == ReportedCount(report.nc2Final, report, At(timeTrajectory, k))
             atEvent == /\ itr <= Len(eventsPastTheEndIndeces)
                        /\ k + 1 = eventsPastTheEndIndeces[itr]
             overflow == [throws |-> "ConstraintDimOverflow", nc1Trajectory |-> <<>>,
                          nc2Trajectory |-> <<>>, nc2Finals |-> <<>>]
         IN  IF nc1 > InputDim THEN overflow
             ELSE IF nc2 > InputDim THEN overflow
             ELSE IF atEvent /\ nc2Final > InputDim THEN overflow
             ELSE LET rest == calculateConstraintsWorker(
                                  k + 1, IF atEvent THEN itr + 1 ELSE itr,
                                  timeTrajectory, eventsPastTheEndIndeces, report)
                  IN  IF rest.throws # "none" THEN rest
                      ELSE [throws |-> "none",
                            nc1Trajectory |-> <<nc1>> \o rest.nc1Trajectory,
                            nc2Trajectory |-> <<nc2>> \o rest.nc2Trajectory,
                            nc2Finals |-> IF atEvent THEN <<nc2Final>> \o rest.nc2Finals
                                          ELSE rest.nc2Finals]

\* lines 403-432 (calculateRolloutConstraints): the worker on every partition
\* of a rollout; what it throws, if it does
calculateRolloutConstraints(out, report) ==
    IF out.throws = "BadControllerStock" THEN "none"
    ELSE IF \E i \in 1..Len(out.time) :
               calculateConstraintsWorker(0, 1, out.time[i], out.postEvent[i], report).throws # "none"
         THEN "ConstraintDimOverflow"
         ELSE "none"

\* lines 553-566
calculateRolloutMerit(cost, stateInputEqConstraintISE, stateEqConstraintISE, stateEqFinalConstraintISE, inequalityConstraintPenalty) ==
    cost
    + (ddpSettings_.stateConstraintPenaltyCoeff_
       * (ddpSettings_.stateConstraintPenaltyBase_ ^ iteration_)
       * (stateEqConstraintISE + stateEqFinalConstraintISE)) \div 2
    + inequalityConstraintPenalty

\* --------------------------------------------------------------- line search
Workers == 0..(MaxThreads - 1)

NoEvaluation == [cost |-> 0, ISE1 |-> 0, ISE2 |-> 0, ISE2Final |-> 0, penalty |-> 0]

\* What one rollout may come to: its integration diverges, the evaluation of
\* its constraints throws on the counts the constraints report, or it is
\* evaluated.
Outcomes(out) ==
    (IF faults
     THEN {[throws |-> "RolloutDiverged", ev |-> NoEvaluation, reported |-> ZeroReport]}
     ELSE {})
    \cup {[throws |-> "ConstraintDimOverflow", ev |-> NoEvaluation, reported |-> r] :
            r \in {q \in problem.reports : calculateRolloutConstraints(out, q) # "none"}}
    \cup {[throws |-> "none", ev |-> e, reported |-> r] :
            e \in Evaluations,
            r \in {q \in problem.reports : calculateRolloutConstraints(out, q) = "none"}}

\* The problem is deterministic: the dynamics, the constraints and the cost
\* make the same of the same rollout every time.  A rollout is known by the
\* time stamps and the inputs it produces.
EvaluationKey(out) ==
    IF out.throws = "BadControllerStock" THEN <<>> ELSE <<out.time, out.input>>

OutcomesOf(key, out) ==
    IF key \in DOMAIN evaluated THEN {evaluated[key]} ELSE Outcomes(out)

Remember(key, o) == (key :> o) @@ evaluated

MeritOf(ev) == calculateRolloutMerit(ev.cost, ev.ISE1, ev.ISE2, ev.ISE2Final, ev.penalty)

\* the merit a candidate has when nothing cancels its rollout (line 969 on a throw)
NaturalMerit(o) == IF o.throws = "none" THEN MeritOf(o.ev) ELSE ScalarMax

\* line 876, first conjunct: totalCost < baselineTotalCost_ * (1 - 1e-3 * learningRate)
DescentCondition(totalCost, baseline, learningRate) ==
    ArmijoInv * AlphaDen * totalCost < baseline * (ArmijoInv * AlphaDen - learningRate)

\* line 838: maxLearningRate_ * pow(lineSearchContractionRate_, alphaExp)
LearningRateOf(alphaExp) == maxLearningRate_ \div (ContractionInv ^ alphaExp)

\* lines 845-847 left out: no learning rate ends the loop of a task
AlwaysAdmissible(alphaExp) == TRUE

\* line 845: numerics::almost_ge(learningRate, ddpSettings_.minLearningRate_)
LearningRateAdmissible(alphaExp) ==
    maxLearningRate_ >= ddpSettings_.minLearningRate_ * (ContractionInv ^ alphaExp)

\* the largest e with den * ContractionInv^e <= num, for num >= den > 0
FloorLog(num, den) ==
    LET fit == {e \in 0..num : den * (ContractionInv ^ e) <= num}
    IN  CHOOSE e \in fit : \A f \in fit : f <= e

\* line 756: std::log(minLearningRate_ / maxLearningRate_) / std::log(rate) is
\* a quotient of two rounded doubles.  Where the exact quotient is a whole
\* number n >= 1 the computed one can lie so far below n that adding 1 and
\* truncating yields n: maxLearningRate_ 1.0, minLearningRate_ 0.0081 and
\* lineSearchContractionRate_ 0.3 give 3.9999999999999991, while
\* 1.0 * pow(0.3, 4) >= 0.0081 holds.  quotientFallsShort_ tells whether the
\* three doubles the settings stand for are of that kind.
QuotientOfLogs ==
    LET exact == FloorLog(ddpSettings_.maxLearningRate_, ddpSettings_.minLearningRate_)
        whole == ddpSettings_.minLearningRate_ * (ContractionInv ^ exact)
                    = ddpSettings_.maxLearningRate_
    IN  IF ddpSettings_.quotientFallsShort_ /\ whole /\ exact >= 1
        THEN exact - 1
        ELSE exact

\* lines 756-757: static_cast<size_t>(log(minLearningRate_ / maxLearningRate_) / log(rate) + 1)
MaxNumOfLineSearches == QuotientOfLogs + 1

\* lines 931-936: the feed-forward part moved by learningRate * deltaBias
IncrementBias(controller, learningRate) ==
    [controller EXCEPT !.biasArray_ =
        [k \in 1..Len(controller.timeStamp_) |->
            controller.biasArray_[k] + learningRate * controller.deltaBiasArray_[k]]]

\* line 862 left out: the candidate is built on the controllers the task holds,
\* those of the shared result
CandidateFromNominal(learningRate) ==
    [k \in 1..Len(nominalControllersStock_) |->
        IncrementBias(nominalControllersStock_[k], learningRate)]

\* line 862 and lines 931-936: the candidate built on the captured baseline
CandidateControllers(learningRate) ==
    [k \in 1..Len(initLScontrollersStock_) |->
        IncrementBias(initLScontrollersStock_[k], learningRate)]

\* the locals of a lineSearchTask that is not running
NoTask(where) ==
    [pc |-> where, taskId |-> 0, alphaExp |-> 0, learningRate |-> 0, totalCost |-> 0,
     stateInputEqConstraintISE |-> 0, stateEqConstraintISE |-> 0,
     stateEqFinalConstraintISE |-> 0, inequalityConstraintPenalty |-> 0,
     controllersStock |-> <<>>, timeTrajectoriesStock |-> <<>>,
     postEventIndicesStock |-> <<>>, stateTrajectoriesStock |-> <<>>,
     inputTrajectoriesStock |-> <<>>, modelDataTrajectoriesStock |-> <<>>,
     terminateLinesearchTasks |-> FALSE]

\* the locals of a task of a section over time nodes that is not running
NoSectionTask(where) == [pc |-> where, taskId |-> 0, timeIndex |-> 0]

\* no section is running; the loop over the partitions is at partition i and
\* no node <<partition, time index>> has been worked on
NoSection(i) == [kind |-> "none", i |-> i, processed |-> <<>>]

\* the locals of runImpl when no call is running
NoCall ==
    [op |-> "none", ret |-> "none", isInitInternalControllerEmpty |-> FALSE,
     cachedCost |-> 0, cachedStateInputEqConstraintISE |-> 0,
     isLearningRateStarZero |-> FALSE, isOptimizationConverged |-> FALSE,
     args |-> <<>>]

\* the tasks of a section all use the evaluator clone 0
SharedTaskId(next) == 0

\* lines 602, 718 and 822: size_t taskId = nextTaskId_++ (atomic)
TaskIdDrawn(next) == next

\* lines 821-834: the task draws its id and constructs its locals
LineSearchTaskBegin(w) ==
    /\ task[w].pc = "spawned"
    /\ task' = [task EXCEPT ![w] =
          [NoTask("claim") EXCEPT
              !.taskId = TaskIdDrawn(nextTaskId_),
              !.controllersStock = Fill(numPartitions_, EmptyController),
              !.timeTrajectoriesStock = Fill(numPartitions_, <<>>),
              !.postEventIndicesStock = Fill(numPartitions_, <<>>),
              !.stateTrajectoriesStock = Fill(numPartitions_, <<>>),
              !.inputTrajectoriesStock = Fill(numPartitions_, <<>>),
              !.modelDataTrajectoriesStock = Fill(numPartitions_, <<>>)]]
    /\ nextTaskId_' = nextTaskId_ + 1
    /\ UNCHANGED <<settingsVars, riccatiWorkerVars, parallelVars, eigenNbThreads, evaluated, partitionVars, iteration_, rewindCounter_,
                   learningRateStar_, maxLearningRate_, baselineTotalCost_,
                   performanceVars, nominalControllersStock_, nominalVars, cachedVars,
                   riccatiVars, logVars, initLScontrollersStock_, alphaExpNext_,
                   alphaProcessed_, killIntegration, pc, call, thrown, hist>>

\* lines 837-847: claim the next exponent; leave when the rate is below the minimum
LineSearchTaskClaim(w) ==
    /\ task[w].pc = "claim"
    /\ alphaExpNext_' = alphaExpNext_ + 1
    /\ task' = [task EXCEPT ![w] =
          IF LearningRateAdmissible(alphaExpNext_)
          THEN [@ EXCEPT !.pc = "compare", !.alphaExp = alphaExpNext_,
                         !.learningRate = LearningRateOf(alphaExpNext_)]
          ELSE NoTask("done")]
    /\ hist' = [hist EXCEPT !.claimed = @ \o <<alphaExpNext_>>]
    /\ UNCHANGED <<settingsVars, riccatiWorkerVars, parallelVars, eigenNbThreads, evaluated, partitionVars, iteration_, rewindCounter_,
                   learningRateStar_, maxLearningRate_, baselineTotalCost_,
                   performanceVars, nominalControllersStock_, nominalVars, cachedVars,
                   riccatiVars, logVars, initLScontrollersStock_, alphaProcessed_,
                   nextTaskId_, killIntegration, pc, call, thrown>>

\* lines 849-859: the read of learningRateStar_ outside the mutex.  It races
\* with the commits of the other tasks, so it yields the current value or a
\* value learningRateStar_ had earlier in this line search.
LineSearchTaskCompare(w) ==
    /\ task[w].pc = "compare"
    /\ \E seen \in hist.alphaStarSeen :
          task' = [task EXCEPT ![w] =
              IF task[w].learningRate < seen THEN NoTask("done")
              ELSE [@ EXCEPT !.pc = "rollout"]]
    /\ UNCHANGED <<settingsVars, riccatiWorkerVars, parallelVars, eigenNbThreads, evaluated, partitionVars, iteration_, rewindCounter_,
                   learningRateStar_, maxLearningRate_, baselineTotalCost_,
                   performanceVars, nominalControllersStock_, nominalVars, cachedVars,
                   riccatiVars, logVars, initLScontrollersStock_, alphaExpNext_,
                   alphaProcessed_, nextTaskId_, killIntegration, pc, call, thrown, hist>>

\* line 969 left out: the merit keeps the value the local had
StaleMerit(totalCost) == totalCost

\* line 969 sets the merit of a candidate whose rollout or evaluation threw
ThrownMerit(totalCost) == ScalarMax

\* lines 861-865 and 923-975 (lineSearchWorker): the candidate controller, its
\* rollout and its merit.  A rollout that runs while the kill flag is active
\* is cancelled by its integrator, which throws.
LineSearchTaskRollout(w) ==
    /\ task[w].pc = "rollout"
    /\ \E controllers \in {CandidateControllers(task[w].learningRate)} :
       \E integrated \in {rolloutTrajectory(controllers, TRUE)} :
       \E key \in {EvaluationKey(integrated)} :
       \E o \in OutcomesOf(key, integrated) :
       \E out \in {rolloutTrajectory(controllers, o.throws # "RolloutDiverged")} :
          LET failed == killIntegration \/ o.throws # "none" \/ out.throws # "none"
              written == out.throws # "BadControllerStock"
          IN  /\ task' = [task EXCEPT ![w] =
                    [@ EXCEPT
                        !.pc = "commit",
                        !.controllersStock = controllers,
                        !.timeTrajectoriesStock = IF written THEN out.time ELSE @,
                        !.postEventIndicesStock = IF written THEN out.postEvent ELSE @,
                        !.stateTrajectoriesStock = IF written THEN out.state ELSE @,
                        !.inputTrajectoriesStock = IF written THEN out.input ELSE @,
                        !.modelDataTrajectoriesStock = IF written THEN out.modelData ELSE @,
                        !.stateInputEqConstraintISE = IF failed THEN @ ELSE o.ev.ISE1,
                        !.stateEqConstraintISE = IF failed THEN @ ELSE o.ev.ISE2,
                        !.stateEqFinalConstraintISE = IF failed THEN @ ELSE o.ev.ISE2Final,
                        !.inequalityConstraintPenalty = IF failed THEN @ ELSE o.ev.penalty,
                        !.totalCost = IF failed THEN ThrownMerit(@) ELSE MeritOf(o.ev)]]
              /\ evaluated' = Remember(key, o)
              /\ hist' = [hist EXCEPT
                    !.natural = (task[w].alphaExp :> NaturalMerit(o)) @@ @,
                    !.rollouts = @ + 1,
                    !.failed = IF failed THEN @ \cup {task[w].alphaExp} ELSE @,
                    !.cancelled = IF killIntegration THEN @ \cup {task[w].alphaExp} ELSE @]
    /\ UNCHANGED <<settingsVars, riccatiWorkerVars, parallelVars, eigenNbThreads, partitionVars, iteration_, rewindCounter_,
                   learningRateStar_, maxLearningRate_, baselineTotalCost_,
                   performanceVars, nominalControllersStock_, nominalVars, cachedVars,
                   riccatiVars, logVars, initLScontrollersStock_, alphaExpNext_,
                   alphaProcessed_, nextTaskId_, killIntegration, pc, call, thrown>>

\* line 876 without its second conjunct: any candidate that descends is taken
AcceptsAnyRate(totalCost, learningRate) ==
    DescentCondition(totalCost, baselineTotalCost_, learningRate)

\* line 876 without its first conjunct: any larger candidate is taken
AcceptsAnyCost(totalCost, learningRate) ==
    learningRate > learningRateStar_

\* line 876 with <= for <: a candidate as good as the scaled baseline is taken
AcceptsNotWorse(totalCost, learningRate) ==
    /\ ArmijoInv * AlphaDen * totalCost
          <= baselineTotalCost_ * (ArmijoInv * AlphaDen - learningRate)
    /\ learningRate > learningRateStar_

\* line 876: the acceptance predicate evaluated under lineSearchResultMutex_
Accepts(totalCost, learningRate) ==
    /\ DescentCondition(totalCost, baselineTotalCost_, learningRate)
    /\ learningRate > learningRateStar_

\* lines 892-899 left out: the integrators are stopped on any commit
NoneAwaited(alphaExp) == TRUE

\* lines 892-899: every larger learning rate has been processed
AllLargerProcessed(alphaExp) ==
    \A i \in 0..(alphaExp - 1) : At(alphaProcessed_, i)

\* lines 867-905: the critical section of lineSearchResultMutex_.  Line 903
\* writes alphaProcessed_[alphaExp] unchecked: past the end of the vector the
\* write either passes unnoticed or ends the process.
LineSearchTaskCommit(w) ==
    /\ task[w].pc = "commit"
    /\ \E outOfRange \in {"unnoticed", "crash"} :
       LET t == task[w]
           accept == Accepts(t.totalCost, t.learningRate)
           terminate == accept /\ AllLargerProcessed(t.alphaExp)
           crash == outOfRange = "crash"
       IN  /\ t.alphaExp < Len(alphaProcessed_) => outOfRange = "unnoticed"
           /\ pc' = IF crash THEN "crashed" ELSE pc
           /\ IF accept
              THEN /\ nominalTotalCost_' = t.totalCost
                   /\ learningRateStar_' = t.learningRate
                   /\ stateInputEqConstraintISE_' = t.stateInputEqConstraintISE
                   /\ stateEqConstraintISE_' = t.stateEqConstraintISE
                   /\ stateEqFinalConstraintISE_' = t.stateEqFinalConstraintISE
                   /\ inequalityConstraintPenalty_' = t.inequalityConstraintPenalty
                   /\ nominalControllersStock_' = t.controllersStock
                   /\ nominalTimeTrajectoriesStock_' = t.timeTrajectoriesStock
                   /\ nominalPostEventIndicesStock_' = t.postEventIndicesStock
                   /\ nominalStateTrajectoriesStock_' = t.stateTrajectoriesStock
                   /\ nominalInputTrajectoriesStock_' = t.inputTrajectoriesStock
                   /\ modelDataTrajectoriesStock_' = t.modelDataTrajectoriesStock
              ELSE UNCHANGED <<learningRateStar_, performanceVars,
                               nominalControllersStock_, nominalVars>>
           /\ task' = IF crash THEN [v \in Workers |-> NoTask("idle")] ELSE
              [task EXCEPT ![w] =
                 IF accept
                 THEN [@ EXCEPT
                         !.pc = IF terminate THEN "kill" ELSE "claim",
                         !.terminateLinesearchTasks = terminate,
                         !.controllersStock = nominalControllersStock_,
                         !.timeTrajectoriesStock = nominalTimeTrajectoriesStock_,
                         !.postEventIndicesStock = nominalPostEventIndicesStock_,
                         !.stateTrajectoriesStock = nominalStateTrajectoriesStock_,
                         !.inputTrajectoriesStock = nominalInputTrajectoriesStock_,
                         !.modelDataTrajectoriesStock = modelDataTrajectoriesStock_]
                 ELSE [@ EXCEPT !.pc = "claim", !.terminateLinesearchTasks = FALSE]]
           /\ alphaProcessed_' =
                 IF t.alphaExp < Len(alphaProcessed_)
                 THEN [alphaProcessed_ EXCEPT ![t.alphaExp + 1] = TRUE]
                 ELSE alphaProcessed_
           /\ hist' = [hist EXCEPT
                 !.alphaStarSeen = IF accept THEN @ \cup {t.learningRate} ELSE @,
                 !.commits = IF accept THEN @ \o <<t.alphaExp>> ELSE @,
                 !.outOfRange = @ \/ t.alphaExp >= Len(alphaProcessed_)]
    /\ UNCHANGED <<settingsVars, riccatiWorkerVars, parallelVars, eigenNbThreads, evaluated, partitionVars, iteration_, rewindCounter_,
                   maxLearningRate_, baselineTotalCost_, cachedVars, riccatiVars, logVars,
                   initLScontrollersStock_, alphaExpNext_, nextTaskId_, killIntegration,
                   call, thrown>>

\* lines 907-914: event_handler_t::activateKillIntegration(), then leave
LineSearchTaskKill(w) ==
    /\ task[w].pc = "kill"
    /\ killIntegration' = TRUE
    /\ task' = [task EXCEPT ![w] = NoTask("done")]
    /\ UNCHANGED <<settingsVars, riccatiWorkerVars, parallelVars, eigenNbThreads, evaluated, partitionVars, iteration_, rewindCounter_,
                   learningRateStar_, maxLearningRate_, baselineTotalCost_,
                   performanceVars, nominalControllersStock_, nominalVars, cachedVars,
                   riccatiVars, logVars, initLScontrollersStock_, alphaExpNext_,
                   alphaProcessed_, nextTaskId_, pc, call, thrown, hist>>

\* lines 745-747 and 770-772 left out: the increments stay in the controllers
KeepDeltaBias(controllersStock) == controllersStock

\* lines 745-747 and 770-772: the feed-forward increments of every partition cleared
ClearDeltaBias(controllersStock) ==
    [k \in 1..Len(controllersStock) |->
        [controllersStock[k] EXCEPT !.deltaBiasArray_ = <<>>]]

\* line 743: ddpSettings_.maxLearningRate_ < OCS2NumericTraits<scalar_t>::limitEpsilon()
BelowLimitEpsilon(rate) == rate <= 0

\* the history of one line search, started afresh
NewLineSearchHistory(baseline) ==
    [hist EXCEPT !.claimed = <<>>, !.alphaStarSeen = {0}, !.natural = <<>>,
                 !.failed = {}, !.cancelled = {}, !.commits = <<>>,
                 !.joined = FALSE, !.baseline = baseline,
                 !.rollouts = @ + 1]

\* lines 733-764 and 783-800: the baseline rollout on the calling thread, the
\* seed of the search, and either the early return or the start of the tasks
LineSearch ==
    /\ pc = "lineSearch"
    /\ \E integrated \in {rolloutTrajectory(nominalControllersStock_, TRUE)} :
       \E key \in {EvaluationKey(integrated)} :
       \E o \in OutcomesOf(key, integrated) :
       \E out \in {rolloutTrajectory(nominalControllersStock_, o.throws # "RolloutDiverged")} :
          LET written == out.throws # "BadControllerStock"
              failure == IF out.throws # "none" THEN out.throws
                         ELSE IF killIntegration THEN "IntegratorKilled"
                         ELSE o.throws
              early == BelowLimitEpsilon(ddpSettings_.maxLearningRate_)
          IN  /\ evaluated' = Remember(key, o)
              /\ IF written
                 THEN /\ nominalTimeTrajectoriesStock_' = out.time
                      /\ nominalPostEventIndicesStock_' = out.postEvent
                      /\ nominalStateTrajectoriesStock_' = out.state
                      /\ nominalInputTrajectoriesStock_' = out.input
                      /\ modelDataTrajectoriesStock_' = out.modelData
                 ELSE UNCHANGED nominalVars
              /\ IF failure # "none"
                 THEN /\ thrown' = failure
                      /\ pc' = "idle"
                      /\ call' = NoCall
                      /\ UNCHANGED <<performanceVars, baselineTotalCost_, learningRateStar_,
                                     initLScontrollersStock_, nominalControllersStock_,
                                     alphaExpNext_, alphaProcessed_, nextTaskId_, task, hist>>
                 ELSE /\ stateInputEqConstraintISE_' = o.ev.ISE1
                      /\ stateEqConstraintISE_' = o.ev.ISE2
                      /\ stateEqFinalConstraintISE_' = o.ev.ISE2Final
                      /\ inequalityConstraintPenalty_' = o.ev.penalty
                      /\ nominalTotalCost_' = MeritOf(o.ev)
                      /\ baselineTotalCost_' = MeritOf(o.ev)
                      /\ learningRateStar_' = 0
                      /\ initLScontrollersStock_' = nominalControllersStock_
                      /\ hist' = NewLineSearchHistory(
                            [time |-> out.time, postEvent |-> out.postEvent,
                             state |-> out.state, input |-> out.input,
                             modelData |-> out.modelData])
                      /\ UNCHANGED <<thrown, call>>
                      /\ IF early
                         THEN /\ nominalControllersStock_' = ClearDeltaBias(nominalControllersStock_)
                              /\ pc' = call.ret
                              /\ UNCHANGED <<alphaExpNext_, alphaProcessed_, nextTaskId_, task>>
                         ELSE /\ alphaExpNext_' = 0
                              /\ alphaProcessed_' = Fill(MaxNumOfLineSearches, FALSE)
                              /\ nextTaskId_' = 0
                              /\ task' = [w \in Workers |->
                                    IF w < ddpSettings_.nThreads_ THEN NoTask("spawned")
                                    ELSE NoTask("idle")]
                              /\ pc' = "lineSearchJoin"
                              /\ UNCHANGED nominalControllersStock_
    /\ UNCHANGED <<settingsVars, riccatiWorkerVars, parallelVars, eigenNbThreads, partitionVars, iteration_, rewindCounter_,
                   maxLearningRate_, cachedVars, riccatiVars, logVars, killIntegration>>

\* line 767 left out: the flag stays as the tasks left it
KeepKillIntegration(flag) == flag

\* line 767: event_handler_t::deactivateKillIntegration()
DeactivateKillIntegration(flag) == FALSE

\* lines 764-772: runParallel returns when every task has finished; the
\* integrators are revitalised and the feed-forward increments cleared
LineSearchJoin ==
    /\ pc = "lineSearchJoin"
    /\ \A w \in Workers : task[w].pc \in {"idle", "done"}
    /\ killIntegration' = DeactivateKillIntegration(killIntegration)
    /\ nominalControllersStock_' = ClearDeltaBias(nominalControllersStock_)
    /\ task' = [w \in Workers |-> NoTask("idle")]
    /\ pc' = call.ret
    /\ hist' = [hist EXCEPT !.joined = TRUE]
    /\ UNCHANGED <<settingsVars, riccatiWorkerVars, parallelVars, eigenNbThreads, evaluated, partitionVars, iteration_, rewindCounter_,
                   learningRateStar_, maxLearningRate_, baselineTotalCost_,
                   performanceVars, nominalVars, cachedVars, riccatiVars, logVars,
                   initLScontrollersStock_, alphaExpNext_, alphaProcessed_, nextTaskId_,
                   call, thrown>>

\* ------------------------------------------------- the passes of an iteration
\* the five nominal stocks, and the five cached ones, as one record each
NominalTrajectories ==
    [time |-> nominalTimeTrajectoriesStock_, postEvent |-> nominalPostEventIndicesStock_,
     state |-> nominalStateTrajectoriesStock_, input |-> nominalInputTrajectoriesStock_,
     modelData |-> modelDataTrajectoriesStock_]

CachedTrajectories ==
    [time |-> cachedTimeTrajectoriesStock_, postEvent |-> cachedPostEventIndicesStock_,
     state |-> cachedStateTrajectoriesStock_, input |-> cachedInputTrajectoriesStock_,
     modelData |-> cachedModelDataTrajectoriesStock_]

\* the nominal and the cached stocks together
TrajectoryStocks == [nominal |-> NominalTrajectories, cached |-> CachedTrajectories]

\* lines 1133-1137 with copies in place of swaps: the cache receives the
\* nominal stocks, which stay as they are
CopyNominalToCache(stocks) ==
    [nominal |-> stocks.nominal, cached |-> stocks.nominal]

\* lines 1131-1138: each of the five nominal stocks changes places with its
\* cached counterpart
swapNominalTrajectoriesToCache(stocks) ==
    [nominal |-> [time |-> stocks.cached.time, postEvent |-> stocks.cached.postEvent,
                  state |-> stocks.cached.state, input |-> stocks.cached.input,
                  modelData |-> stocks.cached.modelData],
     cached |-> [time |-> stocks.nominal.time, postEvent |-> stocks.nominal.postEvent,
                 state |-> stocks.nominal.state, input |-> stocks.nominal.input,
                 modelData |-> stocks.nominal.modelData]]

\* LinearInterpolation::timeSegment: the index (of the code) of the last
\* sample of timeTrajectory at or before t
TimeSegment(t, timeTrajectory) ==
    LET before == {k \in 0..(Len(timeTrajectory) - 1) : At(timeTrajectory, k) <= t}
    IN  IF before = {} THEN 0 ELSE CHOOSE k \in before : \A l \in before : l <= k

\* lines 1217-1231: the value at the end of the cache, then the rest of the
\* current trajectory
\* lines 1216-1230 with ignoredSizeOfNominal = timeSegment.first: the sample
\* at the start of the time segment is appended as well
correctcachedTrajectoryTailFromSegment(first, firstCachedValue, currentTrajectory, cachedTrajectory) ==
    cachedTrajectory \o <<firstCachedValue>>
        \o SubSeq(currentTrajectory, first + 1, Len(currentTrajectory))

correctcachedTrajectoryTail(first, firstCachedValue, currentTrajectory, cachedTrajectory) ==
    cachedTrajectory \o <<firstCachedValue>>
        \o SubSeq(currentTrajectory, first + 2, Len(currentTrajectory))

\* lines 1146-1176 for partition i: cached and nominal are records of the five
\* stocks; the model data of the cache is not touched
CorrectCachedPartition(cached, nominal, i) ==
    LET cTime == At(cached.time, i)
        nTime == At(nominal.time, i)
        first == TimeSegment(Back(cTime), nTime)
        later == SelectSeq(At(nominal.postEvent, i), LAMBDA ind : ind > first)
    IN  IF cTime = <<>>
        THEN [time |-> nTime, postEvent |-> At(nominal.postEvent, i),
              state |-> At(nominal.state, i), input |-> At(nominal.input, i)]
        ELSE IF nTime # <<>> /\ Back(cTime) < Back(nTime)
        THEN [time |-> correctcachedTrajectoryTail(first, Back(cTime), nTime, cTime),
              postEvent |-> At(cached.postEvent, i)
                  \o [k \in 1..Len(later) |-> later[k] - first + Len(cTime)],
              state |-> correctcachedTrajectoryTail(first, At(At(nominal.state, i), first),
                            At(nominal.state, i), At(cached.state, i)),
              input |-> correctcachedTrajectoryTail(first, At(At(nominal.input, i), first),
                            At(nominal.input, i), At(cached.input, i))]
        ELSE [time |-> cTime, postEvent |-> At(cached.postEvent, i),
              state |-> At(cached.state, i), input |-> At(cached.input, i)]

\* lines 1143-1212
correctInitcachedNominalTrajectories(cached, nominal) ==
    LET active(k) == (k - 1) \in initActivePartition_..finalActivePartition_
        part(k) == CorrectCachedPartition(cached, nominal, k - 1)
    IN  [time |-> [k \in 1..Len(cached.time) |->
                      IF active(k) THEN part(k).time ELSE cached.time[k]],
         postEvent |-> [k \in 1..Len(cached.postEvent) |->
                      IF active(k) THEN part(k).postEvent ELSE cached.postEvent[k]],
         state |-> [k \in 1..Len(cached.state) |->
                      IF active(k) THEN part(k).state ELSE cached.state[k]],
         input |-> [k \in 1..Len(cached.input) |->
                      IF active(k) THEN part(k).input ELSE cached.input[k]],
         modelData |-> cached.modelData]

\* what the approximateLQWorker leaves in a model-data sample (not in src)
LQMark == 1000

\* lines 572-625: every sample of the nominal model data is approximated in
\* place; the stocks keep their lengths
approximateOptimalControlProblem(modelData) ==
    [k \in 1..Len(modelData) |->
        [n \in 1..Len(modelData[k]) |-> LQMark + (modelData[k][n] % LQMark)]]

\* the terminal value the heuristics function reports (not in src)
Heuristics == 1

\* lines 981-1010 with riccatiSolverTask (not in src): the seed of the final
\* active partition is the heuristics, the seed of each earlier active
\* partition is what the backward pass of the next one arrives at
RiccatiSeed(i) == Heuristics + (finalActivePartition_ - i)

solveSequentialRiccatiEquations(seeds, zeroAtFinal) ==
    [k \in 1..Len(seeds) |->
        IF (k - 1) \in initActivePartition_..finalActivePartition_
        THEN (IF zeroAtFinal /\ k - 1 = finalActivePartition_ THEN 0 ELSE RiccatiSeed(k - 1))
        ELSE seeds[k]]

\* the distance between the feed-forward parts two iterations compute: larger
\* than any learning rate, so that no two candidates of a solve coincide
BiasStride == AlphaDen + 1

\* lines 692-728 with calculateControllerWorker (not in src): the controllers
\* outside the active partitions are cleared, the others are computed on
\* SsTimeTrajectoryStock_, which the backward pass leaves equal to the
\* nominal time stamps
\* lines 692-728 without the resize of line 705: the feed-forward increments
\* stay as the controller had them
calculateControllerKeepingIncrements(controllersStock, timeStock) ==
    [k \in 1..Len(controllersStock) |->
        IF (k - 1) \in initActivePartition_..finalActivePartition_
        THEN [timeStamp_ |-> timeStock[k],
              gainArray_ |-> Fill(Len(timeStock[k]), iteration_ + 1),
              biasArray_ |-> Fill(Len(timeStock[k]), BiasStride * (iteration_ + 1)),
              deltaBiasArray_ |-> controllersStock[k].deltaBiasArray_]
        ELSE EmptyController]

calculateController(controllersStock, timeStock) ==
    [k \in 1..Len(controllersStock) |->
        IF (k - 1) \in initActivePartition_..finalActivePartition_
        THEN [timeStamp_ |-> timeStock[k],
              gainArray_ |-> Fill(Len(timeStock[k]), iteration_ + 1),
              biasArray_ |-> Fill(Len(timeStock[k]), BiasStride * (iteration_ + 1)),
              deltaBiasArray_ |-> Fill(Len(timeStock[k]), 1)]
        ELSE EmptyController]

\* ------------------------------------------------------------------- runImpl
\* everything the optimizer stores between calls
StoredState ==
    [numPartitions_ |-> numPartitions_, partitioningTimes_ |-> partitioningTimes_,
     initActivePartition_ |-> initActivePartition_,
     finalActivePartition_ |-> finalActivePartition_,
     initTime_ |-> initTime_, finalTime_ |-> finalTime_,
     iteration_ |-> iteration_, rewindCounter_ |-> rewindCounter_,
     learningRateStar_ |-> learningRateStar_, maxLearningRate_ |-> maxLearningRate_,
     baselineTotalCost_ |-> baselineTotalCost_, nominalTotalCost_ |-> nominalTotalCost_,
     stateInputEqConstraintISE_ |-> stateInputEqConstraintISE_,
     stateEqConstraintISE_ |-> stateEqConstraintISE_,
     nominalControllersStock_ |-> nominalControllersStock_,
     nominal |-> NominalTrajectories, cached |-> CachedTrajectories,
     SmFinalStock_ |-> SmFinalStock_, SvFinalStock_ |-> SvFinalStock_,
     SveFinalStock_ |-> SveFinalStock_, sFinalStock_ |-> sFinalStock_,
     xFinalStock_ |-> xFinalStock_,
     iterationCost_ |-> iterationCost_, iterationISE1_ |-> iterationISE1_,
     iterationISE2_ |-> iterationISE2_]

\* line 1765: numerics::almost_ge(maxLearningRate_, minLearningRate_)
LearningRatesFeasible == ddpSettings_.maxLearningRate_ >= ddpSettings_.minLearningRate_

\* lines 1739-1745: the controllers the overload without controllers passes on
NoInitialControllerPtrArray(numPartitions) ==
    Fill(numPartitions, [linear |-> TRUE, controller |-> EmptyController])

\* lines 1801-1807: the controllers emplaced before the first one that is not
\* a linear_controller_t, all of them when there is none
EmplacedControllers(controllersPtrStock) ==
    LET bad == {k \in 1..Len(controllersPtrStock) : ~controllersPtrStock[k].linear}
        upTo == IF bad = {} THEN Len(controllersPtrStock)
                ELSE (CHOOSE k \in bad : \A l \in bad : k <= l) - 1
    IN  [k \in 1..upTo |-> controllersPtrStock[k].controller]

\* lines 1521-1526 with the remainder taken by every worker: each range has
\* one partition more than the quotient
RangeStartGreedy(endingId, subsystemsPerThread, remainingSubsystems) ==
    endingId - subsystemsPerThread

\* lines 1521-1526: the first partition of a range that ends at endingId
RangeStart(endingId, subsystemsPerThread, remainingSubsystems) ==
    IF remainingSubsystems > 0
    THEN endingId - subsystemsPerThread
    ELSE endingId - subsystemsPerThread + 1

\* lines 1519-1529: the loop over the workers from worker i on
RECURSIVE DistributeFrom(_, _, _, _, _, _)
DistributeFrom(i, N, endingId, subsystemsPerThread, remainingSubsystems, work) ==
    IF i >= N THEN work
    ELSE LET startingId == RangeStart(endingId, subsystemsPerThread, remainingSubsystems)
         IN  DistributeFrom(i + 1, N, startingId - 1, subsystemsPerThread,
                            IF remainingSubsystems > 0 THEN remainingSubsystems - 1
                            ELSE remainingSubsystems,
                            [starting |-> work.starting \o <<startingId>>,
                             ending |-> work.ending \o <<endingId>>])

\* lines 1510-1533: the ranges of the active partitions from the last one
\* down, then the inactive partitions added to the first and the last worker
distributeWork(N, numPartitions, initActivePartition, finalActivePartition) ==
    LET active == finalActivePartition - initActivePartition + 1
        work == DistributeFrom(0, N, finalActivePartition, active \div N, active % N,
                               [starting |-> <<>>, ending |-> <<>>])
    IN  [starting |-> [work.starting EXCEPT ![N] = 0],
         ending |-> [work.ending EXCEPT ![1] = numPartitions - 1]]

\* lines 1737-1843: both overloads of runImpl up to the call of runInit.
\* overload "partitions" is the one without controllers.
Solve(initTime, initStateFinite, finalTime, partitioningTimes, overload, givenPtrStock) ==
    /\ pc = "idle"
    /\ LET K == Len(partitioningTimes) - 1
           controllersPtrStock == IF overload = "partitions"
                                  THEN NoInitialControllerPtrArray(K) ELSE givenPtrStock
           \* line 1741 with partitioningTimes.size() - 1 wrapped around
           lengthError == overload = "partitions" /\ partitioningTimes = <<>>
           badInput == \/ ~LearningRatesFeasible
                       \/ partitioningTimes = <<>>
                       \/ ~initStateFinite
           setup == numPartitions_ # K
           resized == Resize(nominalControllersStock_, K, EmptyController)
           badCount == controllersPtrStock # <<>> /\ Len(controllersPtrStock) # K
           badType == controllersPtrStock # <<>> /\ ~badCount
                      /\ \E k \in 1..Len(controllersPtrStock) : ~controllersPtrStock[k].linear
           stock == IF ~setup /\ (controllersPtrStock = <<>> \/ badCount)
                    THEN nominalControllersStock_
                    ELSE IF controllersPtrStock = <<>> \/ badCount THEN resized
                    ELSE EmplacedControllers(controllersPtrStock)
           badInternal == controllersPtrStock = <<>> /\ Len(stock) # K
           args == [initTime |-> initTime, initStateFinite |-> initStateFinite,
                    finalTime |-> finalTime, partitioningTimes |-> partitioningTimes,
                    overload |-> overload, controllersPtrStock |-> givenPtrStock]
           entered == [hist EXCEPT !.calls = @ + 1, !.op = "solve",
                                   !.before = StoredState, !.rollouts = 0,
                                   !.invalidInput = badInput,
                                   !.repeats = hist.op = "reset" /\ hist.fresh # <<>>
                                               /\ hist.fresh[1] = args]
       IN  IF lengthError \/ badInput
           THEN /\ thrown' = IF lengthError THEN "LengthError" ELSE "BadInput"
                /\ hist' = entered
                /\ UNCHANGED <<riccatiWorkerVars, partitionVars, iteration_, nominalControllersStock_,
                               nominalVars, cachedVars, riccatiVars, logVars, pc, call>>
           ELSE /\ numPartitions_' = K
                /\ partitioningTimes_' = partitioningTimes
                /\ initActivePartition_' = FindBoundedActiveInterval(partitioningTimes, initTime)
                /\ finalActivePartition_' = FindBoundedActiveInterval(partitioningTimes, finalTime)
                /\ nominalControllersStock_' = stock
                \* lines 1568-1604 (setupOptimizer)
                /\ IF setup
                   THEN /\ nominalTimeTrajectoriesStock_' = Resize(nominalTimeTrajectoriesStock_, K, <<>>)
                        /\ nominalPostEventIndicesStock_' = Resize(nominalPostEventIndicesStock_, K, <<>>)
                        /\ nominalStateTrajectoriesStock_' = Resize(nominalStateTrajectoriesStock_, K, <<>>)
                        /\ nominalInputTrajectoriesStock_' = Resize(nominalInputTrajectoriesStock_, K, <<>>)
                        /\ modelDataTrajectoriesStock_' = Resize(modelDataTrajectoriesStock_, K, <<>>)
                        /\ cachedTimeTrajectoriesStock_' = Resize(cachedTimeTrajectoriesStock_, K, <<>>)
                        /\ cachedPostEventIndicesStock_' = Resize(cachedPostEventIndicesStock_, K, <<>>)
                        /\ cachedStateTrajectoriesStock_' = Resize(cachedStateTrajectoriesStock_, K, <<>>)
                        /\ cachedInputTrajectoriesStock_' = Resize(cachedInputTrajectoriesStock_, K, <<>>)
                        /\ cachedModelDataTrajectoriesStock_' = Resize(cachedModelDataTrajectoriesStock_, K, <<>>)
                        /\ SmFinalStock_' = Fill(K, 0)
                        /\ SvFinalStock_' = Fill(K, 0)
                        /\ SveFinalStock_' = Fill(K, 0)
                        /\ sFinalStock_' = Fill(K, 0)
                        /\ xFinalStock_' = Fill(K, 0)
                   ELSE UNCHANGED <<nominalVars, cachedVars, riccatiVars>>
                /\ IF badCount \/ badType \/ badInternal
                   THEN /\ thrown' = IF badInternal THEN "BadInternalController"
                                     ELSE "BadController"
                        /\ hist' = entered
                        /\ UNCHANGED <<riccatiWorkerVars, iteration_, initTime_, finalTime_,
                                       logVars, pc, call>>
                   ELSE /\ iteration_' = 0
                        /\ initTime_' = initTime
                        /\ finalTime_' = finalTime
                        /\ iterationCost_' = <<>>
                        /\ iterationISE1_' = <<>>
                        /\ iterationISE2_' = <<>>
                        /\ call' = [NoCall EXCEPT
                              !.op = "solve", !.args = args,
                              !.isInitInternalControllerEmpty =
                                  \E k \in 1..Len(stock) : ControllerEmpty(stock[k])]
                        \* line 1843
                        /\ \E work \in {distributeWork(
                                  ddpSettings_.nThreads_, K,
                                  FindBoundedActiveInterval(partitioningTimes, initTime),
                                  FindBoundedActiveInterval(partitioningTimes, finalTime))} :
                              /\ startingIndicesRiccatiWorker_' = work.starting
                              /\ endingIndicesRiccatiWorker_' = work.ending
                        /\ pc' = "runInit"
                        /\ thrown' = "none"
                        /\ hist' = [entered EXCEPT
                              !.solves = @ + 1, !.stops = <<>>,
                              !.startedEmpty =
                                  \E k \in 1..Len(stock) : ControllerEmpty(stock[k])]
    /\ UNCHANGED <<settingsVars, parallelVars, eigenNbThreads, evaluated, rewindCounter_,
                   learningRateStar_,
                   maxLearningRate_, baselineTotalCost_, performanceVars, lineSearchVars>>

\* LinearAlgebra::makePSD on a state of dimension one: a negative entry
\* becomes zero
makePSD(Qm) == Max(Qm, 0)

\* the second derivative of the cost with respect to the state that the LQ
\* approximator reports at a sample: negative on an operating point
CostHessian(x) == x

\* lines 636-643 with the branches of lines 680-682: nothing is added when
\* useMakePSD_ is off
NodeQmUnshifted(Qm) ==
    IF ddpSettings_.useMakePSD_ THEN makePSD(Qm) ELSE Qm

\* lines 636-643: the Qm stored for a node
NodeQm(Qm) ==
    IF ddpSettings_.useMakePSD_ THEN makePSD(Qm)
    ELSE Qm + ddpSettings_.addedRiccatiDiagonal_

\* lines 666-677: QmFinal of an event with the penalty of the nc2 active
\* final state constraints, Fm being one
AugmentedQmFinal(QmFinal, nc2) ==
    IF nc2 > 0
    THEN QmFinal + ddpSettings_.stateConstraintPenaltyCoeff_
                       * (ddpSettings_.stateConstraintPenaltyBase_ ^ iteration_)
    ELSE QmFinal

\* lines 679-682: the QmFinal stored for an event
EventQm(augmented) ==
    IF ddpSettings_.useMakePSD_ THEN makePSD(augmented) ELSE augmented

\* lines 622-625: the SmHeuristics_ stored
TerminalSm(Sm) ==
    IF ddpSettings_.useMakePSD_ THEN makePSD(Sm) ELSE Sm

\* lines 573-626: the matrices the LQ step stores on these trajectories,
\* each paired with the matrix the policy was applied to
LQHessians(postEvent, state) ==
    LET nc2 == IF problem.finalISEs = {0} THEN 0 ELSE 1
        nodes == {<<k, n>> \in (1..Len(state)) \X (1..PartitionLen * 2 + 2) :
                     n <= Len(state[k])}
        events == {kn \in nodes : kn[2] \in Range(postEvent[kn[1]])}
        final == state[finalActivePartition_ + 1]
    IN  [node |-> {<<CostHessian(state[kn[1]][kn[2]]),
                     NodeQm(CostHessian(state[kn[1]][kn[2]]))>> : kn \in nodes},
         event |-> {<<AugmentedQmFinal(CostHessian(state[kn[1]][kn[2]]), nc2),
                      EventQm(AugmentedQmFinal(CostHessian(state[kn[1]][kn[2]]), nc2))>> :
                       kn \in events},
         terminal |-> {<<CostHessian(Back(final)), TerminalSm(CostHessian(Back(final)))>>}]

\* line 1644: whether runInit computes the performance indices
ComputePerformanceIndex == ddpSettings_.displayInfo_ \/ ddpSettings_.maxNumIterations_ > 1

\* lines 1621-1688 (runInit) and the log entries of lines 1848-1850
RunInit ==
    /\ pc = "runInit"
    /\ \E integrated \in {rolloutTrajectory(nominalControllersStock_, TRUE)} :
       \E key \in {EvaluationKey(integrated)} :
       \E o \in OutcomesOf(key, integrated) :
       \E out \in {rolloutTrajectory(nominalControllersStock_, o.throws # "RolloutDiverged")} :
       \* line 1626: the nominal stocks and the cached ones change places
       \E swapped \in {swapNominalTrajectoriesToCache(TrajectoryStocks)} :
       \E swappedIn \in {swapped.nominal}, swappedOut \in {swapped.cached} :
       \E nominal \in {IF out.throws # "BadControllerStock" THEN out ELSE swappedIn} :
       \E corrected \in {correctInitcachedNominalTrajectories(swappedOut, nominal)} :
          LET written == out.throws # "BadControllerStock"
              evaluates == out.throws = "none" /\ ComputePerformanceIndex
              failure == IF out.throws # "none" THEN out.throws
                         ELSE IF evaluates /\ o.throws # "none" THEN o.throws
                         ELSE "none"
              passed == out.throws = "none"
              cached == IF passed THEN corrected ELSE swappedOut
              merit == IF ComputePerformanceIndex
                       THEN calculateRolloutMerit(o.ev.cost + o.ev.penalty, o.ev.ISE1,
                                                  o.ev.ISE2, o.ev.ISE2Final, o.ev.penalty)
                       ELSE 0
          IN  /\ evaluated' = Remember(key, o)
              /\ nominalTimeTrajectoriesStock_' = nominal.time
              /\ nominalPostEventIndicesStock_' = nominal.postEvent
              /\ nominalStateTrajectoriesStock_' = nominal.state
              /\ nominalInputTrajectoriesStock_' = nominal.input
              /\ modelDataTrajectoriesStock_' =
                    IF passed THEN approximateOptimalControlProblem(nominal.modelData)
                    ELSE nominal.modelData
              /\ cachedTimeTrajectoriesStock_' = cached.time
              /\ cachedPostEventIndicesStock_' = cached.postEvent
              /\ cachedStateTrajectoriesStock_' = cached.state
              /\ cachedInputTrajectoriesStock_' = cached.input
              /\ cachedModelDataTrajectoriesStock_' = cached.modelData
              /\ hist' = [hist EXCEPT !.rollouts = @ + 1,
                                      !.lq = IF passed
                                             THEN LQHessians(nominal.postEvent, nominal.state)
                                             ELSE @]
              /\ IF failure # "none"
                 THEN /\ thrown' = failure
                      /\ pc' = "idle"
                      /\ call' = NoCall
                      \* line 1623; the throw passes by line 1687
                      /\ eigenNbThreads' = 1
                      /\ UNCHANGED <<performanceVars, riccatiVars, nominalControllersStock_,
                                     logVars>>
                 ELSE /\ nominalTotalCost_' = merit
                      \* line 1687: Eigen::setNbThreads(0)
                      /\ eigenNbThreads' = 0
                      /\ stateInputEqConstraintISE_' =
                            IF ComputePerformanceIndex THEN o.ev.ISE1 ELSE 0
                      /\ stateEqConstraintISE_' =
                            IF ComputePerformanceIndex THEN o.ev.ISE2 ELSE 0
                      /\ stateEqFinalConstraintISE_' =
                            IF ComputePerformanceIndex THEN o.ev.ISE2Final ELSE 0
                      /\ inequalityConstraintPenalty_' =
                            IF ComputePerformanceIndex THEN o.ev.penalty
                            ELSE inequalityConstraintPenalty_
                      /\ SmFinalStock_' = solveSequentialRiccatiEquations(SmFinalStock_, FALSE)
                      /\ SvFinalStock_' = solveSequentialRiccatiEquations(SvFinalStock_, FALSE)
                      /\ SveFinalStock_' = solveSequentialRiccatiEquations(SveFinalStock_, TRUE)
                      /\ sFinalStock_' = solveSequentialRiccatiEquations(sFinalStock_, FALSE)
                      /\ xFinalStock_' = solveSequentialRiccatiEquations(xFinalStock_, FALSE)
                      /\ nominalControllersStock_' =
                            calculateController(nominalControllersStock_, nominal.time)
                      /\ iterationCost_' = iterationCost_ \o <<merit>>
                      /\ iterationISE1_' = iterationISE1_ \o
                            <<IF ComputePerformanceIndex THEN o.ev.ISE1 ELSE 0>>
                      /\ iterationISE2_' = iterationISE2_ \o
                            <<IF ComputePerformanceIndex THEN o.ev.ISE2 ELSE 0>>
                      /\ pc' = "loop"
                      /\ UNCHANGED <<thrown, call>>
    /\ UNCHANGED <<settingsVars, riccatiWorkerVars, parallelVars, partitionVars, iteration_, rewindCounter_,
                   learningRateStar_, maxLearningRate_, baselineTotalCost_, lineSearchVars>>

\* the test of the main loop with one iteration more allowed
MainLoopContinuesOnceMore(isOptimizationConverged) ==
    /\ iteration_ < ddpSettings_.maxNumIterations_
    /\ ~isOptimizationConverged

\* line 1861: the test of the main loop
MainLoopContinues(isOptimizationConverged) ==
    /\ iteration_ + 1 < ddpSettings_.maxNumIterations_
    /\ ~isOptimizationConverged

\* lines 1861-1882 and 1911-1916: the test of the main loop; either the next
\* iteration starts, up to its line search, or the final line search does
Loop ==
    /\ pc = "loop"
    /\ LET again == MainLoopContinues(call.isOptimizationConverged)
       IN  /\ iteration_' = IF again THEN iteration_ + 1 ELSE iteration_
           \* line 1696: runIteration begins with Eigen::setNbThreads(1)
           /\ eigenNbThreads' = IF again THEN 1 ELSE eigenNbThreads
           /\ call' = IF again
                      THEN [call EXCEPT !.ret = "iteration",
                                        !.cachedCost = nominalTotalCost_,
                                        !.cachedStateInputEqConstraintISE =
                                            stateInputEqConstraintISE_]
                      ELSE [call EXCEPT !.ret = "final"]
           /\ hist' = [hist EXCEPT
                 !.rolloutsBefore = hist.rollouts,
                 !.activeEmptyBefore =
                     \E i \in initActivePartition_..finalActivePartition_ :
                         ControllerEmpty(At(nominalControllersStock_, i))]
    \* lines 1879 and 1911: swapNominalTrajectoriesToCache
    /\ \E swapped \in {swapNominalTrajectoriesToCache(TrajectoryStocks)} :
          /\ cachedTimeTrajectoriesStock_' = swapped.cached.time
          /\ cachedPostEventIndicesStock_' = swapped.cached.postEvent
          /\ cachedStateTrajectoriesStock_' = swapped.cached.state
          /\ cachedInputTrajectoriesStock_' = swapped.cached.input
          /\ cachedModelDataTrajectoriesStock_' = swapped.cached.modelData
          /\ nominalTimeTrajectoriesStock_' = swapped.nominal.time
          /\ nominalPostEventIndicesStock_' = swapped.nominal.postEvent
          /\ nominalStateTrajectoriesStock_' = swapped.nominal.state
          /\ nominalInputTrajectoriesStock_' = swapped.nominal.input
          /\ modelDataTrajectoriesStock_' = swapped.nominal.modelData
    \* lines 1699 and 1914
    /\ maxLearningRate_' = ddpSettings_.maxLearningRate_
    /\ pc' = "lineSearch"
    /\ UNCHANGED <<settingsVars, riccatiWorkerVars, parallelVars, evaluated, partitionVars, rewindCounter_,
                   learningRateStar_, baselineTotalCost_, performanceVars,
                   nominalControllersStock_, riccatiVars, logVars, lineSearchVars, thrown>>

\* lines 1889-1896: the convergence predicate of the main loop
IsConstraint1Satisfied(cachedStateInputEqConstraintISE) ==
    \/ stateInputEqConstraintISE_ <= ddpSettings_.minAbsConstraint1ISE_
    \/ Abs(stateInputEqConstraintISE_ - cachedStateInputEqConstraintISE)
          <= ddpSettings_.minRelConstraint1ISE_

\* line 1893 without its second conjunct
ZeroRateAlone(isInitInternalControllerEmpty) ==
    learningRateStar_ = 0

IsLearningRateStarZero(isInitInternalControllerEmpty) ==
    learningRateStar_ = 0 /\ ~isInitInternalControllerEmpty

IsCostFunctionConverged(cachedCost, isInitInternalControllerEmpty) ==
    \/ Abs(nominalTotalCost_ - cachedCost) <= ddpSettings_.minRelCost_
    \/ IsLearningRateStarZero(isInitInternalControllerEmpty)

\* lines 1709-1730 (runIteration from its backward pass on) and lines
\* 1884-1896, with the model data the approximation has left
IterationTail(from, modelData) ==
    /\ pc = from
    /\ modelDataTrajectoriesStock_' = modelData
    \* line 1730: Eigen::setNbThreads(0)
    /\ eigenNbThreads' = 0
    /\ SmFinalStock_' = solveSequentialRiccatiEquations(SmFinalStock_, FALSE)
    /\ SvFinalStock_' = solveSequentialRiccatiEquations(SvFinalStock_, FALSE)
    /\ SveFinalStock_' = solveSequentialRiccatiEquations(SveFinalStock_, TRUE)
    /\ sFinalStock_' = solveSequentialRiccatiEquations(sFinalStock_, FALSE)
    /\ xFinalStock_' = solveSequentialRiccatiEquations(xFinalStock_, FALSE)
    /\ nominalControllersStock_' =
          calculateController(nominalControllersStock_, nominalTimeTrajectoriesStock_)
    /\ iterationCost_' = iterationCost_ \o <<nominalTotalCost_>>
    /\ iterationISE1_' = iterationISE1_ \o <<stateInputEqConstraintISE_>>
    /\ iterationISE2_' = iterationISE2_ \o <<stateEqConstraintISE_>>
    /\ LET converged ==
              /\ IsCostFunctionConverged(call.cachedCost, call.isInitInternalControllerEmpty)
              /\ IsConstraint1Satisfied(call.cachedStateInputEqConstraintISE)
       IN  /\ call' = [call EXCEPT
                 !.isLearningRateStarZero =
                     IsLearningRateStarZero(call.isInitInternalControllerEmpty),
                 !.isOptimizationConverged = converged,
                 !.isInitInternalControllerEmpty = FALSE]
           /\ hist' = [hist EXCEPT
                 !.stops = @ \o
                     <<[iteration |-> iteration_,
                        learningRateStar |-> learningRateStar_,
                        baseline |-> baselineTotalCost_]>>,
                 !.lq = LQHessians(nominalPostEventIndicesStock_,
                                   nominalStateTrajectoriesStock_)]
    /\ pc' = "loop"
    /\ UNCHANGED <<settingsVars, riccatiWorkerVars, parallelVars, evaluated, partitionVars, iteration_,
                   rewindCounter_,
                   learningRateStar_, maxLearningRate_, baselineTotalCost_, performanceVars,
                   nominalTimeTrajectoriesStock_, nominalPostEventIndicesStock_,
                   nominalStateTrajectoriesStock_, nominalInputTrajectoriesStock_,
                   cachedVars, lineSearchVars, thrown>>

\* lines 1704-1730 (the rest of runIteration after its line search) and
\* lines 1884-1896
IterationRest ==
    IterationTail("iteration", approximateOptimalControlProblem(modelDataTrajectoriesStock_))

\* ------------------------------------- the parallel sections of runIteration
\* what the steps of a section over time nodes leave alone
sectionFrame ==
    <<settingsVars, riccatiWorkerVars, eigenNbThreads, partitionVars, iteration_, rewindCounter_,
      learningRateStar_, maxLearningRate_, baselineTotalCost_, performanceVars,
      nominalControllersStock_, nominalTimeTrajectoriesStock_,
      nominalPostEventIndicesStock_, nominalStateTrajectoriesStock_,
      nominalInputTrajectoriesStock_, cachedVars, riccatiVars, logVars,
      initLScontrollersStock_, alphaExpNext_, alphaProcessed_, killIntegration, task,
      evaluated, call, thrown, hist>>

\* approximateLQWorker (not in src) on node timeIndex of partition i: the
\* sample is approximated in place, a node the stock does not have is not
approximateLQWorker(modelData, i, timeIndex) ==
    [k \in 1..Len(modelData) |->
        [n \in 1..Len(modelData[k]) |->
            IF k = i + 1 /\ n = timeIndex + 1
            THEN LQMark + (modelData[k][n] % LQMark)
            ELSE modelData[k][n]]]

\* the record of the nodes the tasks have worked on, with one more for node
Counted(node, processed) ==
    (node :> (IF node \in DOMAIN processed THEN processed[node] + 1 ELSE 1)) @@ processed

\* the section a position of runIteration runs over the partitions
SectionOf(where) == IF where = "approximate" THEN "lq" ELSE "controller"

\* lines 576 and 700: the number of nodes N of partition i; lines 695-698: a
\* partition that is not active has no controller to compute
SectionNodes(kind, i) ==
    IF kind = "controller" /\ (i < initActivePartition_ \/ i > finalActivePartition_)
    THEN 0
    ELSE Len(At(nominalTimeTrajectoriesStock_, i))

\* lines 605 and 721 with <= for <: the node past the end is taken too
HasNodeInclusive(timeIndex, N) == timeIndex <= N

\* lines 605 and 721: (timeIndex = nextTimeIndex_++) < N
HasNode(timeIndex, N) == timeIndex < N

\* the tasks runParallel(task, nThreads_) starts (ThreadPool is not in src)
SpawnedTasks ==
    [w \in Workers |->
        NoSectionTask(IF w < ddpSettings_.nThreads_ THEN "spawned" ELSE "idle")]

\* line 1704: runIteration calls approximateOptimalControlProblem
ApproximateBegin ==
    /\ pc = "iteration"
    /\ pc' = "approximate"
    /\ parallel' = NoSection(0)
    /\ UNCHANGED <<sectionFrame, nextTimeIndex_, sectionTask, nextTaskId_,
                   modelDataTrajectoriesStock_>>

\* lines 574-610 and 694-725: the next partition of the loop; its tasks are
\* started when it has nodes
SectionStart ==
    /\ pc \in {"approximate", "controller"}
    /\ parallel.kind = "none"
    /\ parallel.i < numPartitions_
    /\ IF SectionNodes(SectionOf(pc), parallel.i) > 0
       THEN /\ nextTimeIndex_' = 0
            /\ nextTaskId_' = 0
            /\ sectionTask' = SpawnedTasks
            /\ parallel' = [parallel EXCEPT !.kind = SectionOf(pc)]
       ELSE /\ parallel' = [parallel EXCEPT !.i = @ + 1]
            /\ UNCHANGED <<nextTimeIndex_, nextTaskId_, sectionTask>>
    /\ UNCHANGED <<sectionFrame, modelDataTrajectoriesStock_, pc>>

\* lines 602 and 718, and riccatiSolverTask (not in src): the task draws its id
SectionTaskBegin(w) ==
    /\ sectionTask[w].pc = "spawned"
    /\ sectionTask' = [sectionTask EXCEPT ![w] =
          [@ EXCEPT !.taskId = TaskIdDrawn(nextTaskId_),
                    !.pc = IF parallel.kind = "riccati" THEN "work" ELSE "claim"]]
    /\ nextTaskId_' = nextTaskId_ + 1
    /\ UNCHANGED <<sectionFrame, nextTimeIndex_, parallel, modelDataTrajectoriesStock_, pc>>

\* lines 605 and 721: the task draws the next time index and leaves when the
\* partition has no such node
SectionTaskClaim(w) ==
    /\ sectionTask[w].pc = "claim"
    /\ nextTimeIndex_' = nextTimeIndex_ + 1
    /\ sectionTask' = [sectionTask EXCEPT ![w] =
          IF HasNode(nextTimeIndex_, SectionNodes(parallel.kind, parallel.i))
          THEN [@ EXCEPT !.pc = "work", !.timeIndex = nextTimeIndex_]
          ELSE NoSectionTask("done")]
    /\ UNCHANGED <<sectionFrame, nextTaskId_, parallel, modelDataTrajectoriesStock_, pc>>

\* lines 607 and 722: the worker of the section on the node the task holds,
\* with the evaluators of its task id; the backward pass of a riccatiSolverTask
SectionTaskWork(w) ==
    /\ sectionTask[w].pc = "work"
    /\ modelDataTrajectoriesStock_' =
          IF parallel.kind = "lq"
          THEN approximateLQWorker(modelDataTrajectoriesStock_, parallel.i,
                                   sectionTask[w].timeIndex)
          ELSE modelDataTrajectoriesStock_
    /\ parallel' =
          IF parallel.kind = "riccati" THEN parallel
          ELSE [parallel EXCEPT !.processed =
                  Counted(<<parallel.i, sectionTask[w].timeIndex>>, @)]
    /\ sectionTask' = [sectionTask EXCEPT ![w] =
          IF parallel.kind = "riccati" THEN NoSectionTask("done")
          ELSE [@ EXCEPT !.pc = "claim"]]
    /\ UNCHANGED <<sectionFrame, nextTimeIndex_, nextTaskId_, pc>>

\* lines 610, 725 and 999: runParallel returns when every task has finished;
\* the loop goes to the next partition, the backward pass to calculateController
SectionJoin ==
    /\ parallel.kind # "none"
    /\ \A w \in Workers : sectionTask[w].pc \in {"idle", "done"}
    /\ sectionTask' = [w \in Workers |-> NoSectionTask("idle")]
    /\ parallel' = IF parallel.kind = "riccati" THEN NoSection(0)
                   ELSE [parallel EXCEPT !.kind = "none", !.i = @ + 1]
    /\ pc' = IF parallel.kind = "riccati" THEN "controller" ELSE pc
    /\ UNCHANGED <<sectionFrame, nextTimeIndex_, nextTaskId_, modelDataTrajectoriesStock_>>

\* lines 1709 and 995-999: after the last partition runIteration goes to the
\* backward pass, which at an iteration after the first starts its tasks
RiccatiStart ==
    /\ pc = "approximate"
    /\ parallel.kind = "none"
    /\ parallel.i = numPartitions_
    /\ pc' = "riccati"
    /\ nextTaskId_' = 0
    /\ sectionTask' = SpawnedTasks
    /\ parallel' = [NoSection(0) EXCEPT !.kind = "riccati"]
    /\ UNCHANGED <<sectionFrame, nextTimeIndex_, modelDataTrajectoriesStock_>>

\* lines 1713-1730: after the last partition of calculateController
\* runIteration ends
ControllerEnd ==
    /\ parallel.kind = "none"
    /\ parallel.i = numPartitions_
    /\ IterationTail("controller", modelDataTrajectoriesStock_)

SectionStep ==
    \/ ApproximateBegin
    \/ SectionStart
    \/ \E w \in Workers : SectionTaskBegin(w)
    \/ \E w \in Workers : SectionTaskClaim(w)
    \/ \E w \in Workers : SectionTaskWork(w)
    \/ SectionJoin
    \/ RiccatiStart
    \/ ControllerEnd

\* what a caller observes of a solve that returned: the primal solution
\* (lines 1388-1443), the performance indices, the iteration log and the
\* cached trajectories
Observable ==
    [time |-> nominalTimeTrajectoriesStock_, postEvent |-> nominalPostEventIndicesStock_,
     state |-> nominalStateTrajectoriesStock_, input |-> nominalInputTrajectoriesStock_,
     controllers |-> nominalControllersStock_,
     cost |-> nominalTotalCost_, ISE1 |-> stateInputEqConstraintISE_,
     ISE2 |-> stateEqConstraintISE_,
     iterationCost |-> iterationCost_, iterationISE1 |-> iterationISE1_,
     iterationISE2 |-> iterationISE2_,
     cachedTime |-> cachedTimeTrajectoriesStock_,
     cachedPostEvent |-> cachedPostEventIndicesStock_,
     cachedState |-> cachedStateTrajectoriesStock_,
     cachedInput |-> cachedInputTrajectoriesStock_]

\* line 1949: runImpl returns after its final line search
Finish ==
    /\ pc = "final"
    /\ pc' = "idle"
    /\ call' = NoCall
    /\ thrown' = "none"
    /\ hist' = [hist EXCEPT !.fresh = IF hist.calls = 1 THEN <<call.args, Observable>> ELSE @]
    /\ UNCHANGED <<settingsVars, riccatiWorkerVars, parallelVars, eigenNbThreads, evaluated, partitionVars, iteration_, rewindCounter_,
                   learningRateStar_, maxLearningRate_, baselineTotalCost_, performanceVars,
                   nominalControllersStock_, nominalVars, cachedVars, riccatiVars, logVars,
                   lineSearchVars>>

\* --------------------------------------------------------- reset and rewind
\* reset() and rewindOptimizer index every stock up to numPartitions_; a stock
\* shorter than that is accessed out of its range
StocksCoverPartitions ==
    /\ Len(nominalControllersStock_) >= numPartitions_
    /\ Len(nominalTimeTrajectoriesStock_) >= numPartitions_
    /\ Len(cachedTimeTrajectoriesStock_) >= numPartitions_
    /\ Len(SmFinalStock_) >= numPartitions_

\* the elements of a stock within the first numPartitions_ set to x
ClearedStock(stock, x) ==
    [k \in 1..Len(stock) |-> IF k <= numPartitions_ THEN x ELSE stock[k]]

\* lines 120-158.  An access out of range either passes unnoticed or ends
\* the process.
Reset ==
    /\ pc = "idle"
    /\ \E outOfRange \in {"unnoticed", "crash"} :
          /\ StocksCoverPartitions => outOfRange = "unnoticed"
          /\ pc' = IF outOfRange = "crash" THEN "crashed" ELSE "idle"
    /\ iteration_' = 0
    /\ rewindCounter_' = 0
    /\ learningRateStar_' = AlphaDen
    /\ maxLearningRate_' = AlphaDen
    /\ nominalControllersStock_' = ClearedStock(nominalControllersStock_, EmptyController)
    /\ nominalTimeTrajectoriesStock_' = ClearedStock(nominalTimeTrajectoriesStock_, <<>>)
    /\ nominalPostEventIndicesStock_' = ClearedStock(nominalPostEventIndicesStock_, <<>>)
    /\ nominalStateTrajectoriesStock_' = ClearedStock(nominalStateTrajectoriesStock_, <<>>)
    /\ nominalInputTrajectoriesStock_' = ClearedStock(nominalInputTrajectoriesStock_, <<>>)
    /\ cachedTimeTrajectoriesStock_' = ClearedStock(cachedTimeTrajectoriesStock_, <<>>)
    /\ cachedPostEventIndicesStock_' = ClearedStock(cachedPostEventIndicesStock_, <<>>)
    /\ cachedStateTrajectoriesStock_' = ClearedStock(cachedStateTrajectoriesStock_, <<>>)
    /\ cachedInputTrajectoriesStock_' = ClearedStock(cachedInputTrajectoriesStock_, <<>>)
    /\ cachedModelDataTrajectoriesStock_' = ClearedStock(cachedModelDataTrajectoriesStock_, <<>>)
    /\ SmFinalStock_' = ClearedStock(SmFinalStock_, 0)
    /\ SvFinalStock_' = ClearedStock(SvFinalStock_, 0)
    /\ SveFinalStock_' = ClearedStock(SveFinalStock_, 0)
    /\ sFinalStock_' = ClearedStock(sFinalStock_, 0)
    /\ xFinalStock_' = ClearedStock(xFinalStock_, 0)
    /\ thrown' = "none"
    /\ hist' = [hist EXCEPT !.calls = @ + 1, !.op = "reset", !.before = StoredState,
                            !.repeats = FALSE]
    /\ UNCHANGED <<settingsVars, riccatiWorkerVars, parallelVars, eigenNbThreads, evaluated, partitionVars, baselineTotalCost_,
                   performanceVars, modelDataTrajectoriesStock_, logVars, lineSearchVars,
                   call>>

\* lines 1478-1495: the stock shifted to the left by firstIndex, its tail set to x
RewoundStock(stock, firstIndex, x) ==
    [k \in 1..Len(stock) |->
        IF k > numPartitions_ THEN stock[k]
        ELSE IF k <= numPartitions_ - firstIndex /\ k + firstIndex <= Len(stock)
        THEN stock[k + firstIndex]
        ELSE x]

\* lines 1479-1494: the body of the loop for partition i; the controllers
\* are swapped, the seeds are assigned
RewindStep(stock, firstIndex, i, x, swaps) ==
    IF i < numPartitions_ - firstIndex
    THEN IF swaps
         THEN [stock EXCEPT ![i + 1] = stock[firstIndex + i + 1],
                            ![firstIndex + i + 1] = stock[i + 1]]
         ELSE [stock EXCEPT ![i + 1] = stock[firstIndex + i + 1]]
    ELSE [stock EXCEPT ![i + 1] = x]

RECURSIVE RewindOver(_, _, _, _, _)
RewindOver(order, stock, firstIndex, x, swaps) ==
    IF order = <<>> THEN stock
    ELSE RewindOver(Tail(order), RewindStep(stock, firstIndex, Head(order), x, swaps),
                    firstIndex, x, swaps)

\* lines 1478-1495 with the loop running from the last partition to the first
RewindInPlaceDescending(stock, firstIndex, x, swaps) ==
    RewindOver([k \in 1..numPartitions_ |-> numPartitions_ - k], stock, firstIndex, x, swaps)

\* lines 1478-1495: the loop over the partitions in ascending order, on the
\* stock in place
RewindInPlace(stock, firstIndex, x, swaps) ==
    RewindOver([k \in 1..numPartitions_ |-> k - 1], stock, firstIndex, x, swaps)

\* the stock after the loop; a stock shorter than numPartitions_ is indexed
\* out of range
Rewound(stock, firstIndex, x, swaps) ==
    IF Len(stock) >= numPartitions_ THEN RewindInPlace(stock, firstIndex, x, swaps)
    ELSE RewoundStock(stock, firstIndex, x)

\* lines 1464-1496
rewindOptimizer(firstIndex) ==
    /\ pc = "idle"
    /\ hist' = [hist EXCEPT !.calls = @ + 1, !.op = "rewind", !.before = StoredState,
                            !.firstIndex = firstIndex, !.repeats = FALSE]
    /\ IF firstIndex = 0
       THEN /\ thrown' = "none"
            /\ UNCHANGED <<rewindCounter_, nominalControllersStock_, riccatiVars, pc>>
       ELSE /\ rewindCounter_' = rewindCounter_ + firstIndex
            /\ IF firstIndex > numPartitions_
               THEN /\ thrown' = "RewindIndexTooLarge"
                    /\ UNCHANGED <<nominalControllersStock_, riccatiVars, pc>>
               ELSE /\ thrown' = "none"
                    /\ \E outOfRange \in {"unnoticed", "crash"} :
                          /\ StocksCoverPartitions => outOfRange = "unnoticed"
                          /\ pc' = IF outOfRange = "crash" THEN "crashed" ELSE "idle"
                    /\ nominalControllersStock_' =
                          Rewound(nominalControllersStock_, firstIndex, EmptyController, TRUE)
                    /\ SmFinalStock_' = Rewound(SmFinalStock_, firstIndex, 0, FALSE)
                    /\ SvFinalStock_' = Rewound(SvFinalStock_, firstIndex, 0, FALSE)
                    /\ SveFinalStock_' = Rewound(SveFinalStock_, firstIndex, 0, FALSE)
                    /\ sFinalStock_' = Rewound(sFinalStock_, firstIndex, 0, FALSE)
                    /\ xFinalStock_' = Rewound(xFinalStock_, firstIndex, 0, FALSE)
    /\ UNCHANGED <<settingsVars, riccatiWorkerVars, parallelVars, eigenNbThreads, evaluated, partitionVars, iteration_, learningRateStar_,
                   maxLearningRate_, baselineTotalCost_, performanceVars, nominalVars,
                   cachedVars, logVars, lineSearchVars, call>>

\* the number of leading entries of a sorted array that are before value
LowerBound(array, value) ==
    LET notBefore == {k \in 1..Len(array) : array[k] >= value}
    IN  IF notBefore = {} THEN Len(array)
        ELSE (CHOOSE k \in notBefore : \A l \in notBefore : k <= l) - 1

\* lines 1395-1398: the number of leading entries of a sorted array that are
\* not after value, by std::upper_bound
UpperBound(array, value) ==
    LET larger == {k \in 1..Len(array) : array[k] > value}
    IN  IF larger = {} THEN Len(array)
        ELSE (CHOOSE k \in larger : \A l \in larger : k <= l) - 1

\* lines 1407-1421: the leading samples of the partitions from i on, each
\* partition up to finalTime, until a partition starts after finalTime
RECURSIVE PrimalTrajectory(_, _, _)
PrimalTrajectory(trajectoriesStock, i, finalTime) ==
    IF i > finalActivePartition_ THEN <<>>
    ELSE IF At(nominalTimeTrajectoriesStock_, i)[1] > finalTime THEN <<>>
    ELSE SubSeq(At(trajectoriesStock, i), 1,
                UpperBound(At(nominalTimeTrajectoriesStock_, i), finalTime))
         \o PrimalTrajectory(trajectoriesStock, i + 1, finalTime)

\* LinearController::concatenate(next, 0, length): the control law of next
\* up to its entry length is appended
Concatenate(controller, next, length) ==
    [timeStamp_ |-> controller.timeStamp_ \o SubSeq(next.timeStamp_, 1, length),
     gainArray_ |-> controller.gainArray_ \o SubSeq(next.gainArray_, 1, length),
     biasArray_ |-> controller.biasArray_ \o SubSeq(next.biasArray_, 1, length),
     deltaBiasArray_ |-> <<>>]

\* lines 1425-1435: the controllers of the partitions from i on, each up to
\* finalTime, appended to controller
RECURSIVE PrimalController(_, _, _)
PrimalController(controller, i, finalTime) ==
    IF i > finalActivePartition_ THEN controller
    ELSE IF At(nominalControllersStock_, i).timeStamp_[1] > finalTime THEN controller
    ELSE PrimalController(
            Concatenate(controller, At(nominalControllersStock_, i),
                        UpperBound(At(nominalControllersStock_, i).timeStamp_, finalTime)),
            i + 1, finalTime)

\* lines 1388-1443
getPrimalSolution(finalTime) ==
    LET timeTrajectory == PrimalTrajectory(nominalTimeTrajectoriesStock_,
                                           initActivePartition_, finalTime)
        inputTrajectory == PrimalTrajectory(nominalInputTrajectoriesStock_,
                                            initActivePartition_, finalTime)
    IN  [timeTrajectory_ |-> timeTrajectory,
         stateTrajectory_ |-> PrimalTrajectory(nominalStateTrajectoriesStock_,
                                               initActivePartition_, finalTime),
         inputTrajectory_ |-> inputTrajectory,
         controllerPtr_ |->
            IF ddpSettings_.useFeedbackPolicy_
            THEN [linear |-> TRUE,
                  controller |-> PrimalController(EmptyController, initActivePartition_,
                                                  finalTime)]
            ELSE [linear |-> FALSE,
                  controller |-> [timeStamp_ |-> timeTrajectory, uffArray_ |-> inputTrajectory]],
         modeSchedule_ |-> eventTimes]

\* front() and operator[] of lines 1409 and 1429 are defined: every active
\* partition has nominal samples, and a controller with time stamps when the
\* feedback policy is asked for
PrimalSolutionDefined ==
    \A i \in initActivePartition_..finalActivePartition_ :
        /\ i < Len(nominalTimeTrajectoriesStock_)
        /\ At(nominalTimeTrajectoriesStock_, i) # <<>>
        /\ Len(At(nominalStateTrajectoriesStock_, i)) = Len(At(nominalTimeTrajectoriesStock_, i))
        /\ Len(At(nominalInputTrajectoriesStock_, i)) = Len(At(nominalTimeTrajectoriesStock_, i))
        /\ ddpSettings_.useFeedbackPolicy_ =>
              /\ i < Len(nominalControllersStock_)
              /\ ~ControllerEmpty(At(nominalControllersStock_, i))

\* a call of getPrimalSolution by the owner of the optimizer
GetPrimalSolution(finalTime) ==
    /\ pc = "idle"
    /\ IF PrimalSolutionDefined
       THEN /\ hist' = [hist EXCEPT !.calls = @ + 1, !.op = "getPrimalSolution",
                                    !.primal = [finalTime |-> finalTime,
                                                solution |-> getPrimalSolution(finalTime)]]
            /\ UNCHANGED pc
       ELSE /\ hist' = [hist EXCEPT !.calls = @ + 1, !.op = "getPrimalSolution"]
            /\ pc' \in {"idle", "crashed"}
    /\ UNCHANGED <<settingsVars, riccatiWorkerVars, parallelVars, eigenNbThreads, evaluated, partitionVars, iteration_, rewindCounter_,
                   learningRateStar_, maxLearningRate_, baselineTotalCost_, performanceVars,
                   nominalControllersStock_, nominalVars, cachedVars, riccatiVars, logVars,
                   lineSearchVars, call, thrown>>

\* ------------------------------------------------------------ specifications
\* the settings common to every optimizer considered
BaseSettings ==
    [nThreads_ |-> 1, maxNumIterations_ |-> 1,
     maxLearningRate_ |-> AlphaDen, minLearningRate_ |-> AlphaDen,
     minRelCost_ |-> 0, minAbsConstraint1ISE_ |-> 0, minRelConstraint1ISE_ |-> 0,
     stateConstraintPenaltyCoeff_ |-> 2, stateConstraintPenaltyBase_ |-> 2,
     displayInfo_ |-> FALSE, useFeedbackPolicy_ |-> FALSE,
     useMakePSD_ |-> TRUE, addedRiccatiDiagonal_ |-> 0,
     quotientFallsShort_ |-> FALSE]

\* one candidate and no iteration, one candidate and one iteration, no line
\* search at all, and an infeasible pair of learning rates
Settings ==
    {BaseSettings,
     [BaseSettings EXCEPT !.maxNumIterations_ = 2],
     [BaseSettings EXCEPT !.maxLearningRate_ = 0, !.minLearningRate_ = 0],
     [BaseSettings EXCEPT !.maxLearningRate_ = AlphaDen \div ContractionInv]}

InitHist ==
    [primal |-> <<>>, claimed |-> <<>>, alphaStarSeen |-> {0}, natural |-> <<>>, failed |-> {},
     cancelled |-> {}, commits |-> <<>>, joined |-> FALSE, baseline |-> <<>>,
     outOfRange |-> FALSE, rollouts |-> 0, rolloutsBefore |-> 0,
     calls |-> 0, solves |-> 0, op |-> "none", before |-> <<>>, firstIndex |-> 0,
     invalidInput |-> FALSE, repeats |-> FALSE, fresh |-> <<>>,
     stops |-> <<>>, startedEmpty |-> FALSE, activeEmptyBefore |-> FALSE,
     lq |-> [node |-> {}, event |-> {}, terminal |-> {}]]

\* a problem whose constraints report no active constraint, or more of them
\* than the input has dimensions when its evaluation can throw
PlainProblem(withFaults) ==
    [reports |-> IF withFaults THEN {ZeroReport, OverflowReport} ELSE {ZeroReport},
     stateISEs |-> {0}, finalISEs |-> {0}, penalties |-> {0}]

\* the optimizer as its constructor leaves it (lines 38-85), with the given settings
Constructed(settings, events, atEnd, withConstraints, withFaults, withProblem) ==
    /\ ddpSettings_ = settings
    /\ eventTimes = events
    /\ endEvent = atEnd
    /\ constrained = withConstraints
    /\ faults = withFaults
    /\ problem = withProblem
    /\ numPartitions_ = 0
    /\ partitioningTimes_ = <<>>
    /\ initActivePartition_ = 0
    /\ finalActivePartition_ = 0
    /\ initTime_ = 0
    /\ finalTime_ = 0
    /\ iteration_ = 0
    /\ rewindCounter_ = 0
    /\ learningRateStar_ = AlphaDen
    /\ maxLearningRate_ = AlphaDen
    /\ nominalTotalCost_ = 0
    /\ baselineTotalCost_ = 0
    /\ stateInputEqConstraintISE_ = 0
    /\ stateEqConstraintISE_ = 0
    /\ stateEqFinalConstraintISE_ = 0
    /\ inequalityConstraintPenalty_ = 0
    /\ nominalControllersStock_ = <<>>
    /\ nominalTimeTrajectoriesStock_ = <<>>
    /\ nominalPostEventIndicesStock_ = <<>>
    /\ nominalStateTrajectoriesStock_ = <<>>
    /\ nominalInputTrajectoriesStock_ = <<>>
    /\ modelDataTrajectoriesStock_ = <<>>
    /\ cachedTimeTrajectoriesStock_ = <<>>
    /\ cachedPostEventIndicesStock_ = <<>>
    /\ cachedStateTrajectoriesStock_ = <<>>
    /\ cachedInputTrajectoriesStock_ = <<>>
    /\ cachedModelDataTrajectoriesStock_ = <<>>
    /\ SmFinalStock_ = <<>>
    /\ SvFinalStock_ = <<>>
    /\ SveFinalStock_ = <<>>
    /\ sFinalStock_ = <<>>
    /\ xFinalStock_ = <<>>
    /\ iterationCost_ = <<>>
    /\ iterationISE1_ = <<>>
    /\ iterationISE2_ = <<>>
    /\ initLScontrollersStock_ = <<>>
    /\ alphaExpNext_ = 0
    /\ alphaProcessed_ = <<>>
    /\ nextTaskId_ = 0
    /\ killIntegration = FALSE
    /\ evaluated = <<>>
    /\ task = [w \in Workers |-> NoTask("idle")]
    /\ nextTimeIndex_ = 0
    /\ parallel = NoSection(0)
    /\ sectionTask = [w \in Workers |-> NoSectionTask("idle")]
    /\ eigenNbThreads = 0
    /\ startingIndicesRiccatiWorker_ = <<>>
    /\ endingIndicesRiccatiWorker_ = <<>>
    /\ pc = "idle"
    /\ call = NoCall
    /\ thrown = "none"
    /\ hist = InitHist

\* the partitionings handed to solve: up to MaxPartitions partitions of length
\* PartitionLen from time 0
Partitioning(K) == [k \in 1..(K + 1) |-> (k - 1) * PartitionLen]

Partitionings == {Partitioning(K) : K \in 1..MaxPartitions}

FinalTimes(partitioningTimes) ==
    IF partitioningTimes = <<>> THEN {PartitionLen}
    ELSE {PartitionLen, Back(partitioningTimes)}

\* a controller a caller supplies for partition i of a partitioning, with
\* time stamps from the start of the partition up to `till`
UserController(partitioningTimes, i, till) ==
    [timeStamp_ |-> <<At(partitioningTimes, i), till>>,
     gainArray_ |-> <<0, 0>>, biasArray_ |-> <<0, 0>>, deltaBiasArray_ |-> <<0, 0>>]

\* n controllers, each covering its partition
UserControllers(partitioningTimes, n) ==
    [k \in 1..n |->
        LET i == Min(k, Len(partitioningTimes) - 1) - 1
        IN  [linear |-> TRUE,
             controller |-> UserController(partitioningTimes, i,
                                           At(partitioningTimes, i + 1))]]

\* the controller stocks a caller hands to solve: none, one controller per
\* partition, the last of them empty, the last of them not a
\* linear_controller_t, and one controller too many
ControllerPtrStocks(partitioningTimes) ==
    LET K == Len(partitioningTimes) - 1
        all == UserControllers(partitioningTimes, K)
    IN  IF K < 1 THEN {<<>>}
        ELSE {<<>>, all,
              [all EXCEPT ![K] = [linear |-> TRUE, controller |-> EmptyController]],
              [all EXCEPT ![K] = [linear |-> FALSE, controller |-> EmptyController]],
              UserControllers(partitioningTimes, K + 1)}

LineSearchStep ==
    \/ LineSearch
    \/ \E w \in Workers : LineSearchTaskBegin(w)
    \/ \E w \in Workers : LineSearchTaskClaim(w)
    \/ \E w \in Workers : LineSearchTaskCompare(w)
    \/ \E w \in Workers : LineSearchTaskRollout(w)
    \/ \E w \in Workers : LineSearchTaskCommit(w)
    \/ \E w \in Workers : LineSearchTaskKill(w)
    \/ LineSearchJoin

\* ---- Spec: the public operations, in any order, on one optimizer
Init ==
    \E settings \in Settings : Constructed(settings, <<1>>, FALSE, FALSE, TRUE, PlainProblem(TRUE))

SolveCall ==
    /\ hist.calls < MaxCalls
    /\ \E partitioningTimes \in {<<>>} \cup Partitionings, initStateFinite \in BOOLEAN,
          overload \in {"partitions", "controllers"} :
          \E finalTime \in FinalTimes(partitioningTimes),
             controllersPtrStock \in IF overload = "partitions" THEN {<<>>}
                                     ELSE ControllerPtrStocks(partitioningTimes) :
             Solve(0, initStateFinite, finalTime, partitioningTimes, overload,
                   controllersPtrStock)
    /\ pc' = "runInit" => hist.solves < MaxSolves

ResetCall == hist.calls < MaxCalls /\ Reset

RewindCall ==
    /\ hist.calls < MaxCalls
    /\ \E firstIndex \in 0..(MaxPartitions + 1) : rewindOptimizer(firstIndex)

Next ==
    \/ SolveCall
    \/ ResetCall
    \/ RewindCall
    \/ RunInit
    \/ Loop
    \/ IterationRest
    \/ Finish
    \/ LineSearchStep

Spec == Init /\ [][Next]_vars

\* ---- SpecLS: one solve whose line search has MaxAlphaExp + 1 candidates
\* and up to MaxThreads workers
LineSearchSettings ==
    {[BaseSettings EXCEPT !.nThreads_ = n,
                          !.minLearningRate_ = AlphaDen \div (ContractionInv ^ MaxAlphaExp)] :
        n \in 1..MaxThreads}

InitLS ==
    \E settings \in LineSearchSettings : Constructed(settings, <<1>>, FALSE, FALSE, TRUE, PlainProblem(TRUE))

SolveLS ==
    /\ hist.calls = 0
    /\ Solve(0, TRUE, PartitionLen, Partitioning(1), "partitions", <<>>)

NextLS ==
    \/ SolveLS
    \/ RunInit
    \/ Loop
    \/ Finish
    \/ LineSearchStep

SpecLS == InitLS /\ [][NextLS]_vars

\* ---- SpecRound: the solve of SpecLS with one or two workers, the quotient
\* of line 756 exact or short, and the smallest learning rate on or between
\* the candidates
RoundSettings ==
    {[BaseSettings EXCEPT !.nThreads_ = n,
                          !.minLearningRate_ = alphaMin,
                          !.quotientFallsShort_ = short] :
        n \in 1..2,
        alphaMin \in (AlphaDen \div (ContractionInv ^ MaxAlphaExp))..AlphaDen,
        short \in BOOLEAN}

InitRound ==
    \E settings \in RoundSettings : Constructed(settings, <<1>>, FALSE, FALSE, TRUE, PlainProblem(TRUE))

SpecRound == InitRound /\ [][NextLS]_vars

\* ---- SpecKill: one solve of two line searches, each with MaxAlphaExp + 1
\* candidates or with none at all, and up to MaxThreads workers
KillSettings ==
    {[settings EXCEPT !.maxNumIterations_ = 2] : settings \in LineSearchSettings}
    \cup {[BaseSettings EXCEPT !.maxNumIterations_ = 2, !.nThreads_ = MaxThreads,
                               !.maxLearningRate_ = 0, !.minLearningRate_ = 0]}

InitKill ==
    \E settings \in KillSettings :
        Constructed(settings, <<1>>, FALSE, FALSE, FALSE, PlainProblem(FALSE))

NextKill ==
    \/ SolveLS
    \/ RunInit
    \/ Loop
    \/ IterationRest
    \/ Finish
    \/ LineSearchStep

SpecKill == InitKill /\ [][NextKill]_vars

\* ---- SpecShared: one solve whose line search has MaxThreads workers and two
\* candidates, on problems whose constraint ISEs and inequality penalty
\* differ from one rollout to the next
SharedSettings ==
    [BaseSettings EXCEPT !.nThreads_ = MaxThreads,
                         !.minLearningRate_ = AlphaDen \div ContractionInv]

SharedProblem ==
    [reports |-> {ZeroReport}, stateISEs |-> 0..1, finalISEs |-> {0}, penalties |-> 0..1]

FinalConstraintProblem ==
    [reports |-> {ZeroReport}, stateISEs |-> {0}, finalISEs |-> 0..1, penalties |-> {0}]

InitShared ==
    \/ Constructed(SharedSettings, <<1>>, FALSE, FALSE, FALSE, SharedProblem)
    \/ Constructed(SharedSettings, <<1>>, FALSE, FALSE, FALSE, FinalConstraintProblem)
    \/ Constructed(SharedSettings, <<1>>, FALSE, TRUE, TRUE, PlainProblem(TRUE))

SpecShared == InitShared /\ [][NextLS]_vars

\* ---- SpecParallel: one solve of two iterations over MaxPartitions
\* partitions, the last of them active or not, with up to MaxThreads workers
\* and a line search of one candidate; the sections of the iteration run
\* task by task
ParallelSettings ==
    {[BaseSettings EXCEPT !.nThreads_ = n, !.maxNumIterations_ = 2,
                          !.minLearningRate_ = AlphaDen] : n \in 1..MaxThreads}

InitParallel ==
    \E settings \in ParallelSettings :
        Constructed(settings, <<1>>, FALSE, FALSE, FALSE, PlainProblem(FALSE))

SolveParallel ==
    /\ hist.calls = 0
    /\ \E finalTime \in FinalTimes(Partitioning(MaxPartitions)) :
          Solve(0, TRUE, finalTime, Partitioning(MaxPartitions), "partitions", <<>>)

NextParallel ==
    \/ SolveParallel
    \/ RunInit
    \/ Loop
    \/ Finish
    \/ LineSearchStep
    \/ SectionStep

SpecParallel == InitParallel /\ [][NextParallel]_vars

\* ---- SpecDistribute: the start of one solve, up to distributeWork, over up
\* to MaxWorkPartitions partitions with up to MaxWorkThreads workers and
\* every horizon on the grid
InitDistribute ==
    \E n \in 1..MaxWorkThreads :
        Constructed([BaseSettings EXCEPT !.nThreads_ = n], <<1>>, FALSE, FALSE, FALSE,
                    PlainProblem(FALSE))

SolveDistribute ==
    /\ hist.calls = 0
    /\ \E K \in 1..MaxWorkPartitions :
       \E initTime \in 0..(K * PartitionLen) :
       \E finalTime \in initTime..(K * PartitionLen) :
          Solve(initTime, TRUE, finalTime, Partitioning(K), "partitions", <<>>)

SpecDistribute == InitDistribute /\ [][SolveDistribute]_vars

\* ---- SpecScan: the rollout of runInit over ScanPartitions partitions, each
\* with no controller, with a controller up to its end or with one that ends
\* early; the controller of partition i has bias i + 1 throughout
ScanSchedules ==
    {<<>>, <<1>>, <<PartitionLen + 1>>, <<2 * PartitionLen>>, <<1, 2 * PartitionLen + 1>>}

InitScan ==
    \E events \in ScanSchedules, atEnd \in BOOLEAN :
        Constructed(BaseSettings, events, atEnd, FALSE, FALSE, PlainProblem(FALSE))

BiasedController(partitioningTimes, i, till) ==
    [UserController(partitioningTimes, i, till) EXCEPT !.biasArray_ = <<i + 1, i + 1>>]

ScanControllers(partitioningTimes) ==
    LET of(i, kind) ==
            IF kind = "none" THEN EmptyController
            ELSE IF kind = "full"
            THEN BiasedController(partitioningTimes, i, At(partitioningTimes, i + 1))
            ELSE BiasedController(partitioningTimes, i, At(partitioningTimes, i) + 1)
    IN  {[k \in 1..ScanPartitions |-> [linear |-> TRUE, controller |-> of(k - 1, kinds[k])]] :
            kinds \in [1..ScanPartitions -> {"none", "full", "early"}]}

SolveScan ==
    /\ hist.calls = 0
    /\ \E initTime \in {0, PartitionLen + 1} :
       \E finalTime \in {2 * PartitionLen, ScanPartitions * PartitionLen} :
       \E controllersPtrStock \in ScanControllers(Partitioning(ScanPartitions)) :
          Solve(initTime, TRUE, finalTime, Partitioning(ScanPartitions), "controllers",
                controllersPtrStock)

NextScan ==
    \/ SolveScan
    \/ RunInit

SpecScan == InitScan /\ [][NextScan]_vars

\* ---- SpecCache: up to MaxCalls solves over two partitions with horizons
\* that start and end anywhere on the grid, so that the rollout of runInit
\* meets a cache that is empty, shorter, as long or longer
CacheSchedules == {<<>>, <<1>>, <<PartitionLen>>}

InitCache ==
    \E events \in CacheSchedules, atEnd \in BOOLEAN :
        Constructed(BaseSettings, events, atEnd, FALSE, FALSE, PlainProblem(FALSE))

SolveCache ==
    /\ hist.calls < MaxCalls
    /\ \E initTime \in {0, 1} :
       \E finalTime \in (initTime + 1)..(MaxPartitions * PartitionLen) :
          Solve(initTime, TRUE, finalTime, Partitioning(MaxPartitions), "partitions", <<>>)

NextCache ==
    \/ SolveCache
    \/ RunInit
    \/ Loop
    \/ Finish
    \/ LineSearchStep

SpecCache == InitCache /\ [][NextCache]_vars

\* ---- SpecRollout: one solve under each schedule of events, with
\* integrators that do and that do not emit an event at their end time
EventSchedules ==
    {<<>>, <<1>>, <<PartitionLen>>, <<1, PartitionLen>>, <<PartitionLen + 1>>}

InitRollout ==
    \E events \in EventSchedules, atEnd \in BOOLEAN :
        Constructed(BaseSettings, events, atEnd, FALSE, TRUE, PlainProblem(TRUE))

\* controllers that end before their partition does: the controller of the
\* first partition stops one step after it starts, the others are as given
EndingEarly(partitioningTimes, controllersPtrStock) ==
    [controllersPtrStock EXCEPT ![1] =
        [linear |-> TRUE,
         controller |-> UserController(partitioningTimes, 0, At(partitioningTimes, 0) + 1)]]

\* controllers of which the first is empty and the others are not
FirstEmpty(controllersPtrStock) ==
    [controllersPtrStock EXCEPT ![1] = [linear |-> TRUE, controller |-> EmptyController]]

\* controllers of which the last is empty and the others are not
LastEmpty(controllersPtrStock) ==
    [controllersPtrStock EXCEPT ![Len(controllersPtrStock)] =
        [linear |-> TRUE, controller |-> EmptyController]]

RolloutControllers(partitioningTimes) ==
    LET K == Len(partitioningTimes) - 1
        all == UserControllers(partitioningTimes, K)
        none == NoInitialControllerPtrArray(K)
    IN  {<<>>, all, EndingEarly(partitioningTimes, all), EndingEarly(partitioningTimes, none),
         FirstEmpty(all), LastEmpty(all)}

SolveRollout ==
    /\ hist.calls = 0
    /\ \E partitioningTimes \in Partitionings :
          \E finalTime \in FinalTimes(partitioningTimes),
             controllersPtrStock \in RolloutControllers(partitioningTimes) :
             Solve(0, TRUE, finalTime, partitioningTimes, "controllers", controllersPtrStock)

NextRollout ==
    \/ SolveRollout
    \/ RunInit
    \/ Loop
    \/ Finish
    \/ LineSearchStep

SpecRollout == InitRollout /\ [][NextRollout]_vars

\* ---- SpecShift: one solve without line search over up to
\* MaxWorkPartitions partitions, then up to two calls of rewindOptimizer
InitShift ==
    Constructed([BaseSettings EXCEPT !.maxLearningRate_ = 0, !.minLearningRate_ = 0],
                <<>>, FALSE, FALSE, FALSE, PlainProblem(FALSE))

SolveShift ==
    /\ hist.calls = 0
    /\ \E K \in 1..MaxWorkPartitions :
       \E finalTime \in {PartitionLen, K * PartitionLen} :
          Solve(0, TRUE, finalTime, Partitioning(K), "partitions", <<>>)

RewindShift ==
    /\ hist.calls \in 1..2
    /\ \E firstIndex \in 0..(MaxWorkPartitions + 1) : rewindOptimizer(firstIndex)

NextShift ==
    \/ SolveShift
    \/ RunInit
    \/ Loop
    \/ LineSearch
    \/ Finish
    \/ RewindShift

SpecShift == InitShift /\ [][NextShift]_vars

\* ---- SpecPSD: one solve under each policy for the state-cost matrices,
\* with and without an event and final state constraints
InitPSD ==
    \E useMakePSD \in BOOLEAN, addedRiccatiDiagonal \in 0..1 :
    \E events \in {<<>>, <<1>>} :
    \E withProblem \in {PlainProblem(FALSE), FinalConstraintProblem} :
        Constructed([BaseSettings EXCEPT !.useMakePSD_ = useMakePSD,
                                         !.addedRiccatiDiagonal_ = addedRiccatiDiagonal],
                    events, FALSE, FALSE, FALSE, withProblem)

SpecPSD == InitPSD /\ [][NextRollout]_vars

\* ---- SpecLoop: one solve of up to MaxIterations iterations on a problem
\* with state-input equality constraints
LoopSettings == [BaseSettings EXCEPT !.maxNumIterations_ = MaxIterations]

InitLoop == Constructed(LoopSettings, <<1>>, FALSE, TRUE, FALSE, PlainProblem(FALSE))

\* the solve starts on the empty internal stock, on one controller per
\* partition, or on controllers of which that of the last partition is empty
LoopControllers(partitioningTimes) ==
    LET K == Len(partitioningTimes) - 1
        all == UserControllers(partitioningTimes, K)
    IN  {<<>>, all, [all EXCEPT ![K] = [linear |-> TRUE, controller |-> EmptyController]]}

\* the horizon ends with the first partition, so that with more partitions
\* than one the later ones are not active
SolveLoop ==
    /\ hist.calls = 0
    /\ \E partitioningTimes \in Partitionings :
          \E controllersPtrStock \in LoopControllers(partitioningTimes) :
             Solve(0, TRUE, PartitionLen, partitioningTimes, "controllers",
                   controllersPtrStock)

NextLoop ==
    \/ SolveLoop
    \/ RunInit
    \/ Loop
    \/ IterationRest
    \/ Finish
    \/ LineSearchStep

SpecLoop == InitLoop /\ [][NextLoop]_vars

\* ---- SpecConstraints: one solve whose rollouts are all evaluated, on a
\* problem whose constraints report up to InputDim + 1 active constraints
ConstraintsSettings == [BaseSettings EXCEPT !.displayInfo_ = TRUE]

ConstraintsProblem == [reports |-> SingleKindReports, stateISEs |-> {0}, finalISEs |-> {0}, penalties |-> {0}]

InitConstraints ==
    \E atEnd \in BOOLEAN :
        Constructed(ConstraintsSettings, <<1>>, atEnd, FALSE, FALSE, ConstraintsProblem)

SolveConstraints ==
    /\ hist.calls = 0
    /\ \E partitioningTimes \in Partitionings :
          \E finalTime \in FinalTimes(partitioningTimes),
             controllersPtrStock \in {<<>>, UserControllers(partitioningTimes, Len(partitioningTimes) - 1)} :
             Solve(0, TRUE, finalTime, partitioningTimes, "controllers", controllersPtrStock)

NextConstraints ==
    \/ SolveConstraints
    \/ RunInit
    \/ Loop
    \/ Finish
    \/ LineSearchStep

SpecConstraints == InitConstraints /\ [][NextConstraints]_vars

\* ---- SpecMerit: one solve of two iterations on a problem with an inequality
\* penalty, on one with state-only constraints, and on one with state-input
\* constraints
MeritSettings == [BaseSettings EXCEPT !.maxNumIterations_ = 2]

PenaltyProblem ==
    [reports |-> {ZeroReport}, stateISEs |-> {0}, finalISEs |-> {0}, penalties |-> 0..MaxISE]

StateConstraintProblem ==
    [reports |-> {ZeroReport}, stateISEs |-> 0..MaxISE, finalISEs |-> 0..MaxISE, penalties |-> {0}]

InitMerit ==
    \/ Constructed(MeritSettings, <<1>>, FALSE, FALSE, FALSE, PenaltyProblem)
    \/ Constructed(MeritSettings, <<1>>, FALSE, FALSE, FALSE, StateConstraintProblem)
    \/ Constructed(MeritSettings, <<1>>, FALSE, TRUE, FALSE, PlainProblem(FALSE))

SolveMerit ==
    /\ hist.calls = 0
    /\ \E controllersPtrStock \in {<<>>, UserControllers(Partitioning(1), 1)} :
          Solve(0, TRUE, PartitionLen, Partitioning(1), "controllers", controllersPtrStock)

NextMerit ==
    \/ SolveMerit
    \/ RunInit
    \/ Loop
    \/ IterationRest
    \/ Finish
    \/ LineSearchStep

SpecMerit == InitMerit /\ [][NextMerit]_vars

\* ---- SpecPrimal: one solve, and one call of getPrimalSolution after it
\* returned, with and without the feedback policy
InitPrimal ==
    \E useFeedbackPolicy \in BOOLEAN :
        Constructed([BaseSettings EXCEPT !.useFeedbackPolicy_ = useFeedbackPolicy],
                    <<1>>, FALSE, FALSE, FALSE, PlainProblem(FALSE))

SolvePrimal ==
    /\ hist.calls = 0
    /\ \E partitioningTimes \in Partitionings :
          \E finalTime \in FinalTimes(partitioningTimes),
             controllersPtrStock \in {<<>>, UserControllers(partitioningTimes, Len(partitioningTimes) - 1)} :
             Solve(0, TRUE, finalTime, partitioningTimes, "controllers", controllersPtrStock)

\* the final times asked for: before the horizon, inside it, at its ends and
\* at the partition boundary, and after it
PrimalFinalTimes == (0 - 1)..(MaxPartitions * PartitionLen + 1)

PrimalCall ==
    /\ hist.calls = 1
    /\ hist.op = "solve"
    /\ thrown = "none"
    /\ \E finalTime \in PrimalFinalTimes : GetPrimalSolution(finalTime)

NextPrimal ==
    \/ SolvePrimal
    \/ PrimalCall
    \/ RunInit
    \/ Loop
    \/ Finish
    \/ LineSearchStep

SpecPrimal == InitPrimal /\ [][NextPrimal]_vars

\* ---- SpecWarmStart: up to MaxCalls solves on one optimizer, by either
\* overload, with and without controllers of the caller, of no iteration,
\* one iteration and two iterations at most
WarmStartSettings ==
    {[BaseSettings EXCEPT !.maxNumIterations_ = n] : n \in 0..(MaxIterations - 1)}

InitWarmStart ==
    \E settings \in WarmStartSettings :
        Constructed(settings, <<1>>, FALSE, FALSE, FALSE, PlainProblem(FALSE))

SolveWarmStart ==
    /\ hist.calls < MaxCalls
    /\ \E partitioningTimes \in Partitionings, overload \in {"partitions", "controllers"} :
          \E controllersPtrStock \in
                IF overload = "partitions" THEN {<<>>}
                ELSE {<<>>, UserControllers(partitioningTimes, Len(partitioningTimes) - 1)} :
             Solve(0, TRUE, Back(partitioningTimes), partitioningTimes, overload,
                   controllersPtrStock)

NextWarmStart ==
    \/ SolveWarmStart
    \/ RunInit
    \/ Loop
    \/ IterationRest
    \/ Finish
    \/ LineSearchStep

SpecWarmStart == InitWarmStart /\ [][NextWarmStart]_vars

\* ---- SpecReset: up to MaxScenario calls of solve and reset on one optimizer
InitReset == Constructed(BaseSettings, <<1>>, FALSE, FALSE, FALSE, PlainProblem(FALSE))

ScenarioControllers(partitioningTimes) ==
    LET K == Len(partitioningTimes) - 1
        all == UserControllers(partitioningTimes, K)
    IN  {<<>>, all, [all EXCEPT ![K] = [linear |-> FALSE, controller |-> EmptyController]]}

SolveScenario ==
    /\ hist.calls < MaxScenario
    /\ \E partitioningTimes \in Partitionings :
          \E controllersPtrStock \in ScenarioControllers(partitioningTimes) :
             Solve(0, TRUE, Back(partitioningTimes), partitioningTimes, "controllers",
                   controllersPtrStock)

ResetScenario == hist.calls < MaxScenario /\ Reset

NextReset ==
    \/ SolveScenario
    \/ ResetScenario
    \/ RunInit
    \/ Loop
    \/ Finish
    \/ LineSearchStep

SpecReset == InitReset /\ [][NextReset]_vars

\* ------------------------------------------------------------------ claims
\* the exponents j whose learning rate maxLearningRate_ * r^j is not below
\* ddpSettings_.minLearningRate_
Candidates == {e \in 0..(MaxAlphaExp + 1) : LearningRateAdmissible(e)}

\* candidate e was rolled out and its merit, taken without any cancellation,
\* satisfies the descent condition against the baseline
Passes(e) ==
    /\ e \in DOMAIN hist.natural
    /\ DescentCondition(hist.natural[e], baselineTotalCost_, LearningRateOf(e))

\* the learning rate a sequential search ends with: it tries the candidates
\* from the largest on and stops at the first that passes
SequentialResult ==
    LET passing == {e \in Candidates : Passes(e)}
    IN  IF passing = {} THEN 0
        ELSE LearningRateOf(CHOOSE e \in passing : \A f \in passing : e <= f)

\* C1: when lineSearch has returned, for every interleaving of its workers and
\* every number of them, learningRateStar_ is the largest candidate whose merit
\* satisfies the descent condition, 0 when there is none; every larger
\* candidate has been rolled out and has failed the condition.
C1_LargestPassingWins ==
    hist.joined =>
        /\ learningRateStar_ = SequentialResult
        /\ \A e \in Candidates :
              LearningRateOf(e) > learningRateStar_ => e \in DOMAIN hist.natural

\* two workers committed in turn, the second a larger rate than the first
C1_Witness ==
    /\ hist.joined
    /\ ddpSettings_.nThreads_ > 1
    /\ Len(hist.commits) > 1
    /\ learningRateStar_ = maxLearningRate_

\* C2 as stated: for every iteration k >= 1 the selected learning rate lies in
\* [0, maxLearningRate] and, when it is positive, the merit logged for
\* iteration k is below the merit logged for iteration k-1 scaled by
\* (1 - 1e-3 * learningRate).
C2_DescentAgainstPreviousIteration ==
    \A k \in 1..Len(hist.stops) :
        LET alphaStar == hist.stops[k].learningRateStar
        IN  /\ alphaStar \in 0..ddpSettings_.maxLearningRate_
            /\ alphaStar > 0 =>
                  ArmijoInv * AlphaDen * iterationCost_[k + 1]
                      < iterationCost_[k] * (ArmijoInv * AlphaDen - alphaStar)

\* C2, amended: for every iteration k >= 1 the selected learning rate lies in
\* [0, maxLearningRate] and, when it is positive, the merit logged for
\* iteration k is below the merit of the baseline rollout of that iteration's
\* line search scaled by (1 - 1e-3 * learningRate).
C2_DescentAgainstBaseline ==
    \A k \in 1..Len(hist.stops) :
        LET alphaStar == hist.stops[k].learningRateStar
        IN  /\ alphaStar \in 0..ddpSettings_.maxLearningRate_
            /\ alphaStar > 0 =>
                  ArmijoInv * AlphaDen * iterationCost_[k + 1]
                      < hist.stops[k].baseline * (ArmijoInv * AlphaDen - alphaStar)

\* the second iteration selected a positive learning rate
C2_Witness ==
    /\ Len(hist.stops) > 1
    /\ hist.stops[Len(hist.stops)].learningRateStar > 0

\* C3: a candidate whose rollout or evaluation threw has the largest scalar as
\* its merit and is never committed; while the tasks run nothing is thrown to
\* the caller of solve, and no task claims an exponent after one that is not a
\* candidate, so every task leaves its loop; the line search that has
\* returned has thrown nothing, and when all candidates threw it returns the
\* baseline with learning rate 0.
C3_ThrownCandidateNeverCommitted ==
    /\ \A w \in Workers :
          (task[w].pc = "commit" /\ task[w].alphaExp \in hist.failed)
              => task[w].totalCost = ScalarMax
    /\ \A k \in 1..Len(hist.commits) : hist.commits[k] \notin hist.failed
    /\ pc = "lineSearchJoin" =>
          /\ thrown = "none"
          /\ call.op = "solve"
          /\ alphaExpNext_ <= Cardinality(Candidates) + ddpSettings_.nThreads_
    /\ hist.joined => thrown = "none"
    /\ (hist.joined /\ Candidates \subseteq hist.failed) =>
          /\ learningRateStar_ = 0
          /\ nominalTotalCost_ = baselineTotalCost_
          /\ NominalTrajectories = hist.baseline
          /\ nominalControllersStock_ = ClearDeltaBias(initLScontrollersStock_)

\* every candidate of a line search threw, one of them by cancellation or all
\* by themselves, and the line search returned
C3_Witness ==
    /\ hist.joined
    /\ Candidates \subseteq hist.failed
    /\ Cardinality(hist.failed) > 1
    /\ pc = "final"

\* the iteration that has just ended when the calling thread is at the test
\* of the main loop, and the merit and the state-input ISE logged for iteration j
LastIteration == Len(iterationCost_) - 1

LoggedMerit(j) == iterationCost_[j + 1]

LoggedISE1(j) == iterationISE1_[j + 1]

\* The controller stock before iteration k held a controller for every
\* partition it was to be used in.  Before the first iteration of a solve
\* these are the controllers the solve started with, one per partition of the
\* partitioning; before a later one, the controllers the iteration before it
\* computed for the active partitions.
StockNonEmptyBefore(k) ==
    IF k = 1 THEN ~hist.startedEmpty ELSE ~hist.activeEmptyBefore

\* the convergence predicate as the claim words it, on the logged values
ConvergencePredicate ==
    LET k == LastIteration
    IN  /\ \/ Abs(LoggedMerit(k) - LoggedMerit(k - 1)) <= ddpSettings_.minRelCost_
           \/ (learningRateStar_ = 0 /\ StockNonEmptyBefore(k))
        /\ \/ LoggedISE1(k) <= ddpSettings_.minAbsConstraint1ISE_
           \/ Abs(LoggedISE1(k) - LoggedISE1(k - 1)) <= ddpSettings_.minRelConstraint1ISE_

IterationLimitReached == LastIteration + 1 >= ddpSettings_.maxNumIterations_

C5_BadInputBeforeAnyChange ==
    (hist.op = "solve" /\ hist.invalidInput) =>
        /\ pc = "idle"
        /\ thrown = "BadInput"
        /\ StoredState = hist.before
        /\ hist.rollouts = 0

\* C6: when solve has failed with BadController the stored state is what it
\* was before the call, and the controller stock has one entry per partition.
C6_BadControllerLeavesState ==
    (hist.op = "solve" /\ pc = "idle" /\ thrown = "BadController") =>
        /\ StoredState = hist.before
        /\ Len(nominalControllersStock_) = numPartitions_

\* C7: whenever no call is running, after any sequence of solve, reset and
\* rewindOptimizer, the nominal model data of every partition are as many as
\* the nominal time stamps of that partition.
C7_ModelDataAsLongAsTime ==
    pc = "idle" =>
        /\ Len(modelDataTrajectoriesStock_) = Len(nominalTimeTrajectoriesStock_)
        /\ \A k \in 1..Len(nominalTimeTrajectoriesStock_) :
              Len(modelDataTrajectoriesStock_[k]) = Len(nominalTimeTrajectoriesStock_[k])

\* the post-event indices of every partition are strictly increasing, and
\* each index j has 1 <= j < |time| and time[j - 1] = time[j]
PostEventIndicesValid(timeStock, postEventStock) ==
    /\ Len(timeStock) = Len(postEventStock)
    /\ \A i \in 1..Len(postEventStock) :
          LET indices == postEventStock[i]
              time == timeStock[i]
          IN  /\ \A k \in 1..(Len(indices) - 1) : indices[k] < indices[k + 1]
              /\ \A k \in 1..Len(indices) :
                    /\ 1 <= indices[k]
                    /\ indices[k] < Len(time)
                    /\ At(time, indices[k] - 1) = At(time, indices[k])

\* C8: what a rollout has written, into the nominal stocks (from runInit, from
\* the baseline rollout and from a commit) and into the stocks of a line
\* search task, has valid post-event indices in every partition.  At the
\* position "lineSearch" the nominal stocks hold the swapped-in cache, not a
\* rollout.
C8_PostEventIndicesValid ==
    /\ pc # "lineSearch" =>
          PostEventIndicesValid(nominalTimeTrajectoriesStock_, nominalPostEventIndicesStock_)
    /\ \A w \in Workers :
          PostEventIndicesValid(task[w].timeTrajectoriesStock, task[w].postEventIndicesStock)

\* runInit has made a rollout in which the controller interval of a partition
\* ended on a post-event sample: the sample at a post-event index is an
\* operating point, the one before it comes from the controller
C8_Witness ==
    /\ pc = "loop"
    /\ \E i \in 1..Len(nominalPostEventIndicesStock_) :
          \E k \in 1..Len(nominalPostEventIndicesStock_[i]) :
             LET j == nominalPostEventIndicesStock_[i][k]
                 input == nominalInputTrajectoriesStock_[i]
             IN  /\ At(input, j) = OperatingPoint
                 /\ At(input, j - 1) # OperatingPoint
                 /\ j + 1 < Len(input)

\* the data a stored state st holds for partition i
PartitionData(st, i) ==
    [controller |-> At(st.nominalControllersStock_, i),
     Sm |-> At(st.SmFinalStock_, i), Sv |-> At(st.SvFinalStock_, i),
     Sve |-> At(st.SveFinalStock_, i), s |-> At(st.sFinalStock_, i),
     xFinal |-> At(st.xFinalStock_, i),
     nominalTime |-> At(st.nominal.time, i),
     nominalPostEvent |-> At(st.nominal.postEvent, i),
     nominalState |-> At(st.nominal.state, i),
     nominalInput |-> At(st.nominal.input, i),
     cachedTime |-> At(st.cached.time, i),
     cachedPostEvent |-> At(st.cached.postEvent, i),
     cachedState |-> At(st.cached.state, i),
     cachedInput |-> At(st.cached.input, i)]

ClearedPartitionData ==
    [controller |-> EmptyController, Sm |-> 0, Sv |-> 0, Sve |-> 0, s |-> 0, xFinal |-> 0,
     nominalTime |-> <<>>, nominalPostEvent |-> <<>>, nominalState |-> <<>>,
     nominalInput |-> <<>>, cachedTime |-> <<>>, cachedPostEvent |-> <<>>,
     cachedState |-> <<>>, cachedInput |-> <<>>]

\* C9: after rewindOptimizer(k) with 0 < k <= K on an optimizer of K
\* partitions, each with its controller, every partition i < K - k holds the
\* data partition i + k held before the call, and every partition from K - k
\* on is cleared; rewindOptimizer(0) leaves the stored state as it was.
C9_RewindShiftsPartitions ==
    (hist.op = "rewind" /\ pc = "idle" /\ thrown = "none"
        /\ Len(hist.before.nominalControllersStock_) = numPartitions_) =>
        LET k == hist.firstIndex
            K == numPartitions_
        IN  IF k = 0 THEN StoredState = hist.before
            ELSE \A i \in 0..(K - 1) :
                    PartitionData(StoredState, i) =
                        IF i < K - k THEN PartitionData(hist.before, i + k)
                        ELSE ClearedPartitionData

\* C10: with one worker, a solve that follows reset() on an optimizer used
\* before, with the inputs of the solve the optimizer made when it was fresh,
\* returns as that solve did and with the same observable result.
C10_ResetThenSolveAsFresh ==
    (ddpSettings_.nThreads_ = 1 /\ hist.repeats /\ hist.op = "solve" /\ pc = "idle") =>
        /\ thrown = "none"
        /\ Observable = hist.fresh[2]

\* C11: the cache-swap applied twice to the stocks gives the stocks back; and
\* when the main loop makes its cache-swap, the five nominal stocks and the
\* five cached ones have changed places, while the controllers, the Riccati
\* data, the rewind counter, the performance indices and the iteration log
\* are as before.
C11_CacheSwapIsInvolution ==
    [][pc = "loop" =>
          /\ swapNominalTrajectoriesToCache(swapNominalTrajectoriesToCache(TrajectoryStocks))
                = TrajectoryStocks
          /\ NominalTrajectories' = CachedTrajectories
          /\ CachedTrajectories' = NominalTrajectories
          /\ UNCHANGED <<nominalControllersStock_, riccatiVars, rewindCounter_,
                         performanceVars, logVars, partitionVars, learningRateStar_>>]_vars

\* the main loop has made its cache-swap in an iteration after the first, and
\* the stocks that changed places differ in their model data and in their inputs
C11_Witness ==
    /\ pc = "lineSearch"
    /\ iteration_ > 1
    /\ modelDataTrajectoriesStock_ # cachedModelDataTrajectoriesStock_
    /\ nominalInputTrajectoriesStock_ # cachedInputTrajectoriesStock_
    /\ \A k \in 1..numPartitions_ : (k - 1) \in initActivePartition_..finalActivePartition_
          => nominalTimeTrajectoriesStock_[k] # <<>> /\ cachedTimeTrajectoriesStock_[k] # <<>>

\* a line search has returned to runImpl, which has not gone on yet
LineSearchReturned == pc \in {"iteration", "final"}

\* the feed-forward increments of every partition are cleared
IncrementsCleared ==
    /\ Len(nominalControllersStock_) = numPartitions_
    /\ \A k \in 1..numPartitions_ : nominalControllersStock_[k].deltaBiasArray_ = <<>>

\* C12 as stated: a line search with maxLearningRate below epsilon has cleared
\* the feed-forward increments of every partition and returned the learning
\* rate 0 without any rollout.
C12_NoLineSearchWithoutRollout ==
    (LineSearchReturned /\ BelowLimitEpsilon(ddpSettings_.maxLearningRate_)) =>
        /\ IncrementsCleared
        /\ learningRateStar_ = 0
        /\ hist.rollouts = hist.rolloutsBefore

\* C12, amended: a line search with maxLearningRate below epsilon has made
\* the baseline rollout and no other, has started no task, has cleared the
\* feed-forward increments of every partition and returned the learning rate
\* 0, with the baseline rollout as the nominal trajectories and its merit as
\* the nominal cost.
C12_NoLineSearchOnlyBaseline ==
    (LineSearchReturned /\ BelowLimitEpsilon(ddpSettings_.maxLearningRate_)) =>
        /\ IncrementsCleared
        /\ learningRateStar_ = 0
        /\ hist.rollouts = hist.rolloutsBefore + 1
        /\ hist.claimed = <<>>
        /\ \A w \in Workers : task[w].pc = "idle"
        /\ NominalTrajectories = hist.baseline
        /\ nominalTotalCost_ = baselineTotalCost_

\* the line search of a solve with maxLearningRate 0 has returned, on
\* controllers that runInit computed with feed-forward increments
C12_Witness ==
    /\ LineSearchReturned
    /\ BelowLimitEpsilon(ddpSettings_.maxLearningRate_)
    /\ initLScontrollersStock_ # <<>>
    /\ \E k \in 1..Len(initLScontrollersStock_) :
          initLScontrollersStock_[k].deltaBiasArray_ # <<>>
    /\ \E k \in 1..numPartitions_ : nominalTimeTrajectoriesStock_[k] # <<>>

\* every active partition of the nominal stocks starts at its start time,
\* ends at its end time and holds operating points only; the other
\* partitions are empty
OperatingPointsThroughout ==
    \A i \in 0..(numPartitions_ - 1) :
        LET time == At(nominalTimeTrajectoriesStock_, i)
            t0 == IF i = initActivePartition_ THEN initTime_ ELSE At(partitioningTimes_, i)
            tf == IF i = finalActivePartition_ THEN finalTime_
                  ELSE At(partitioningTimes_, i + 1)
        IN  IF i \in initActivePartition_..finalActivePartition_
            THEN /\ time # <<>>
                 /\ time[1] = t0
                 /\ Back(time) = tf
                 /\ Len(At(nominalInputTrajectoriesStock_, i)) = Len(time)
                 /\ Len(At(nominalStateTrajectoriesStock_, i)) = Len(time)
                 /\ \A k \in 1..Len(time) :
                       /\ At(nominalInputTrajectoriesStock_, i)[k] = OperatingPoint
                       /\ At(nominalStateTrajectoriesStock_, i)[k] = OperatingPoint
            ELSE time = <<>>

\* C13: when runInit rolls out a controller stock whose controller of
\* partition initActive is empty, useControllerTill is initTime, and the
\* rollout it leaves covers every active partition with operating points
\* and has no sample of a controller, whatever the later controllers are.
C13_EmptyFirstControllerUsesOperatingPoints ==
    [][(pc = "runInit"
            /\ ControllerEmpty(At(nominalControllersStock_, initActivePartition_))) =>
          /\ UseControllerTill(nominalControllersStock_) = initTime_
          /\ OperatingPointsThroughout']_vars

\* runInit has rolled out two active partitions of which the first had an
\* empty controller and the second a controller with time stamps
C13_Witness ==
    /\ pc = "loop"
    /\ numPartitions_ = 2
    /\ finalActivePartition_ = 1
    /\ call.args.controllersPtrStock # <<>>
    /\ ControllerEmpty(call.args.controllersPtrStock[1].controller)
    /\ ~ControllerEmpty(call.args.controllersPtrStock[2].controller)
    /\ OperatingPointsThroughout

\* the partitions i such that the rollout of controllersStock hands over from
\* the controller to the operating points at the end of partition i, which
\* is the start of the active partition i + 1 and the time of an event
HandOffBoundaries(controllersStock) ==
    {i \in initActivePartition_..(finalActivePartition_ - 1) :
        /\ ~ControllerEmpty(At(controllersStock, initActivePartition_))
        /\ UseControllerTill(controllersStock) = At(partitioningTimes_, i + 1)
        /\ At(partitioningTimes_, i + 1) \in Range(eventTimes)}

\* partition i of the nominal stocks is what the controller-driven integrator
\* emitted from the start of the partition to the boundary, with nothing
\* removed and no operating point
EntirelyController(i) ==
    LET t0 == IF i = initActivePartition_ THEN initTime_ ELSE At(partitioningTimes_, i)
        time == At(nominalTimeTrajectoriesStock_, i)
    IN  /\ time = IntegrateFrom(t0, At(partitioningTimes_, i + 1), Range(eventTimes), endEvent)
        /\ Len(At(nominalInputTrajectoriesStock_, i)) = Len(time)
        /\ \A k \in 1..Len(time) : At(nominalInputTrajectoriesStock_, i)[k] # OperatingPoint

\* partition i of the nominal stocks holds operating points only, starts
\* with one sample at the boundary, which is no post-event sample, and two
\* samples of it have the same time at a post-event index only
StartsAtBoundary(i) ==
    LET time == At(nominalTimeTrajectoriesStock_, i)
        indices == Range(At(nominalPostEventIndicesStock_, i))
    IN  /\ time # <<>>
        /\ time[1] = At(partitioningTimes_, i)
        /\ Len(time) > 1 => time[2] > time[1]
        /\ Len(At(nominalInputTrajectoriesStock_, i)) = Len(time)
        /\ \A k \in 1..Len(time) : At(nominalInputTrajectoriesStock_, i)[k] = OperatingPoint
        /\ \A k \in 1..(Len(time) - 1) : time[k] = time[k + 1] => k \in indices

\* C14: when runInit rolls out controllers whose hand-off time is an event on
\* the boundary between two active partitions, the partition before the
\* boundary is the controller rollout up to the boundary with no sample
\* removed, and the partition after it is an operating-point rollout that
\* starts with a single sample at the boundary time.
C14_HandOffOnPartitionBoundary ==
    [][pc = "runInit" =>
          \A i \in HandOffBoundaries(nominalControllersStock_) :
              EntirelyController(i)' /\ StartsAtBoundary(i + 1)']_vars

\* runInit has rolled out two partitions with an event on their boundary,
\* the first with a controller that ends there, the second without one, and
\* the controller-driven integrator has emitted the event at its end time
C14_Witness ==
    /\ pc = "loop"
    /\ numPartitions_ = 2
    /\ finalActivePartition_ = 1
    /\ endEvent
    /\ PartitionLen \in Range(eventTimes)
    /\ call.args.controllersPtrStock # <<>>
    /\ ~ControllerEmpty(call.args.controllersPtrStock[1].controller)
    /\ Back(call.args.controllersPtrStock[1].controller.timeStamp_) = PartitionLen
    /\ ControllerEmpty(call.args.controllersPtrStock[2].controller)
    /\ EntirelyController(0)
    /\ StartsAtBoundary(1)
    /\ Back(At(nominalPostEventIndicesStock_, 0)) = Len(At(nominalTimeTrajectoriesStock_, 0)) - 1

\* the dynamics take the rollout of the nominal controllers, which the
\* calling thread is about to make, to a final state that is not finite
NominalRolloutDiverges ==
    LET key == EvaluationKey(rolloutTrajectory(nominalControllersStock_, TRUE))
    IN  /\ key \in DOMAIN evaluated'
        /\ evaluated'[key].throws = "RolloutDiverged"

\* C15: a rollout whose final state is not finite fails with RolloutDiverged;
\* when it is the rollout of runInit or the baseline rollout of a line
\* search, of an iteration or the final one, solve ends with that failure:
\* no task is started, nothing is logged and the calling thread goes no
\* further.
C15_DivergedRolloutAbortsSolve ==
    [][(pc \in {"runInit", "lineSearch"} /\ NominalRolloutDiverges) =>
          /\ rolloutTrajectory(nominalControllersStock_, FALSE).throws = "RolloutDiverged"
          /\ thrown' = "RolloutDiverged"
          /\ pc' = "idle"
          /\ call' = NoCall
          /\ UNCHANGED <<logVars, task, learningRateStar_, nominalControllersStock_>>]_vars

\* the baseline rollout of the final line search, after one iteration of the
\* main loop, has diverged and solve has ended with the failure
C15_Witness ==
    /\ pc = "idle"
    /\ hist.op = "solve"
    /\ thrown = "RolloutDiverged"
    /\ Len(iterationCost_) = 2
    /\ hist.joined

\* ---- C16
\* the rollout the nominal stocks hold, as the problem knows it
NominalKey == <<nominalTimeTrajectoriesStock_, nominalInputTrajectoriesStock_>>

\* what the constraints report along the nominal trajectories is within the
\* input dimension: both counts at every node, and the count of the final
\* constraints at every node that precedes a post-event index
NominalCountsWithinInputDim(report) ==
    \A i \in 1..Len(nominalTimeTrajectoriesStock_) :
        \A k \in 0..(Len(nominalTimeTrajectoriesStock_[i]) - 1) :
            LET time == At(nominalTimeTrajectoriesStock_[i], k)
            IN  /\ ReportedCount(report.nc1, report, time) <= InputDim
                /\ ReportedCount(report.nc2, report, time) <= InputDim
                /\ (k + 1) \in Range(nominalPostEventIndicesStock_[i])
                       => ReportedCount(report.nc2Final, report, time) <= InputDim

\* C16: a nominal trajectory whose constraint evaluation completed (a baseline
\* rollout or a committed candidate) has nc1 <= InputDim and nc2 <= InputDim
\* at every node and nc2Final <= InputDim at every node preceding a
\* post-event index; a nominal rollout with a reported count above InputDim
\* made the solve throw ConstraintDimOverflow.
C16_CountsWithinInputDim ==
    NominalKey \in DOMAIN evaluated =>
        /\ evaluated[NominalKey].throws = "none"
              => NominalCountsWithinInputDim(evaluated[NominalKey].reported)
        /\ ~NominalCountsWithinInputDim(evaluated[NominalKey].reported)
              => /\ evaluated[NominalKey].throws = "ConstraintDimOverflow"
                 /\ thrown = "ConstraintDimOverflow"
                 /\ pc = "idle"

\* a solve returned with a committed candidate whose final constraints are
\* as many as the input has dimensions at a node that precedes an event
C16_Witness ==
    /\ pc = "idle"
    /\ thrown = "none"
    /\ hist.op = "solve"
    /\ learningRateStar_ > 0
    /\ NominalKey \in DOMAIN evaluated
    /\ evaluated[NominalKey].reported.nc2Final = InputDim
    /\ evaluated[NominalKey].reported.from = 0
    /\ \E i \in 1..Len(nominalPostEventIndicesStock_) : nominalPostEventIndicesStock_[i] # <<>>

\* ---- C17
\* the merit of an evaluation as the specification defines it: the cost, half
\* the penalty coefficient of the iteration times the state-only ISEs, and the
\* inequality penalty once
SpecifiedMerit(ev) ==
    ev.cost
    + (ddpSettings_.stateConstraintPenaltyCoeff_
       * (ddpSettings_.stateConstraintPenaltyBase_ ^ iteration_)
       * (ev.ISE2 + ev.ISE2Final)) \div 2
    + ev.penalty

\* what the problem made of the rollout with these time stamps and inputs
EvaluationOf(timeTrajectoriesStock, inputTrajectoriesStock) ==
    evaluated[<<timeTrajectoriesStock, inputTrajectoriesStock>>].ev

\* C17 (as stated): the merit runInit records at iteration 0, the merit of each
\* line-search baseline and the merit of each candidate that was evaluated
\* equal cost + 1/2 * lambda * (ISE2 + ISE2Final) + penalty with
\* lambda = stateConstraintPenaltyCoeff_ * stateConstraintPenaltyBase_ ^ iteration_.
C17_MeritFormula ==
    /\ (pc = "loop" /\ iteration_ = 0)
          => nominalTotalCost_ = SpecifiedMerit(EvaluationOf(nominalTimeTrajectoriesStock_,
                                                            nominalInputTrajectoriesStock_))
    /\ pc = "lineSearchJoin"
          => baselineTotalCost_ = SpecifiedMerit(EvaluationOf(hist.baseline.time,
                                                             hist.baseline.input))
    /\ \A w \in Workers :
          (task[w].pc = "commit" /\ task[w].alphaExp \notin hist.failed)
             => task[w].totalCost = SpecifiedMerit(EvaluationOf(task[w].timeTrajectoriesStock,
                                                               task[w].inputTrajectoriesStock))

\* ---- C18
\* the samples of a trajectory whose time stamp is not after finalTime
RECURSIVE SamplesUpTo(_, _, _)
SamplesUpTo(trajectory, timeTrajectory, finalTime) ==
    IF timeTrajectory = <<>> THEN <<>>
    ELSE (IF Head(timeTrajectory) <= finalTime THEN <<Head(trajectory)>> ELSE <<>>)
         \o SamplesUpTo(Tail(trajectory), Tail(timeTrajectory), finalTime)

\* those samples of the active partitions from i on, in partition order
RECURSIVE ActiveSamplesUpTo(_, _, _, _)
ActiveSamplesUpTo(trajectoriesStock, timeStock, i, finalTime) ==
    IF i > finalActivePartition_ THEN <<>>
    ELSE SamplesUpTo(At(trajectoriesStock, i), At(timeStock, i), finalTime)
         \o ActiveSamplesUpTo(trajectoriesStock, timeStock, i + 1, finalTime)

ControllerTimeStamps == [k \in 1..Len(nominalControllersStock_) |-> nominalControllersStock_[k].timeStamp_]
ControllerGains == [k \in 1..Len(nominalControllersStock_) |-> nominalControllersStock_[k].gainArray_]
ControllerBiases == [k \in 1..Len(nominalControllersStock_) |-> nominalControllersStock_[k].biasArray_]

\* C18: getPrimalSolution(finalTime) returns time, state and input trajectories
\* of equal length that are the nominal samples of the active partitions with
\* time <= finalTime, in partition order; with useFeedbackPolicy_ the controller
\* is the feedback stock of the active partitions up to finalTime, and without
\* it a feed-forward controller of the returned times and inputs; the mode
\* schedule is the current one.
C18_PrimalSolutionUpToFinalTime ==
    hist.primal # <<>> =>
        LET finalTime == hist.primal.finalTime
            solution == hist.primal.solution
            first == initActivePartition_
        IN  /\ Len(solution.stateTrajectory_) = Len(solution.timeTrajectory_)
            /\ Len(solution.inputTrajectory_) = Len(solution.timeTrajectory_)
            /\ solution.timeTrajectory_ =
                  ActiveSamplesUpTo(nominalTimeTrajectoriesStock_,
                                    nominalTimeTrajectoriesStock_, first, finalTime)
            /\ solution.stateTrajectory_ =
                  ActiveSamplesUpTo(nominalStateTrajectoriesStock_,
                                    nominalTimeTrajectoriesStock_, first, finalTime)
            /\ solution.inputTrajectory_ =
                  ActiveSamplesUpTo(nominalInputTrajectoriesStock_,
                                    nominalTimeTrajectoriesStock_, first, finalTime)
            /\ IF ddpSettings_.useFeedbackPolicy_
               THEN /\ solution.controllerPtr_.linear
                    /\ solution.controllerPtr_.controller.timeStamp_ =
                          ActiveSamplesUpTo(ControllerTimeStamps, ControllerTimeStamps,
                                            first, finalTime)
                    /\ solution.controllerPtr_.controller.gainArray_ =
                          ActiveSamplesUpTo(ControllerGains, ControllerTimeStamps,
                                            first, finalTime)
                    /\ solution.controllerPtr_.controller.biasArray_ =
                          ActiveSamplesUpTo(ControllerBiases, ControllerTimeStamps,
                                            first, finalTime)
               ELSE /\ ~solution.controllerPtr_.linear
                    /\ solution.controllerPtr_.controller =
                          [timeStamp_ |-> solution.timeTrajectory_,
                           uffArray_ |-> solution.inputTrajectory_]
            /\ solution.modeSchedule_ = eventTimes

\* the feedback policy of a solve over two partitions was asked for up to a
\* time inside the second partition: the solution holds the first partition
\* and a part of the second
C18_Witness ==
    /\ hist.primal # <<>>
    /\ ddpSettings_.useFeedbackPolicy_
    /\ initActivePartition_ = 0
    /\ finalActivePartition_ = 1
    /\ hist.primal.finalTime = PartitionLen + 1
    /\ Len(hist.primal.solution.timeTrajectory_) > Len(nominalTimeTrajectoriesStock_[1])
    /\ Len(hist.primal.solution.timeTrajectory_)
          < Len(nominalTimeTrajectoriesStock_[1]) + Len(nominalTimeTrajectoriesStock_[2])
    /\ Len(hist.primal.solution.controllerPtr_.controller.timeStamp_)
          > Len(nominalControllersStock_[1].timeStamp_)

\* ---- C19
\* the caller of the running solve passed controllers
ControllersPassed ==
    /\ call.args.overload = "controllers"
    /\ call.args.controllersPtrStock # <<>>

\* C19 (as stated): a solve called without initial controllers, on the
\* partitions of the previous solve, starts on the internal controller stock
\* as the previous solve left it; the stock is replaced only when the caller
\* passes controllers.
C19_NoControllersKeepsInternalStock ==
    (pc = "runInit" /\ ~ControllersPassed /\ hist.before.numPartitions_ = numPartitions_)
        => nominalControllersStock_ = hist.before.nominalControllersStock_

\* ---- C20
\* C20: after a solve that returned, the three iteration logs have the same
\* length, which is iteration_ + 1 and at most max(1, maxNumIterations_); a
\* solve that passed its validation starts on empty logs.
C20_IterationLogs ==
    /\ (pc = "idle" /\ hist.op = "solve" /\ thrown = "none")
          => /\ Len(iterationISE1_) = Len(iterationCost_)
             /\ Len(iterationISE2_) = Len(iterationCost_)
             /\ Len(iterationCost_) = iteration_ + 1
             /\ Len(iterationCost_) <= Max(1, ddpSettings_.maxNumIterations_)
    /\ pc = "runInit"
          => /\ iterationCost_ = <<>>
             /\ iterationISE1_ = <<>>
             /\ iterationISE2_ = <<>>

\* the second solve on one optimizer returned after two iterations' entries
C20_Witness ==
    /\ pc = "idle"
    /\ hist.op = "solve"
    /\ thrown = "none"
    /\ hist.solves = 2
    /\ Len(hist.before.iterationCost_) = 2
    /\ Len(iterationCost_) = 2
    /\ iteration_ = 1

\* ---- C22
\* C22: a worker that is about to activate the kill flag has made the last
\* commit of the line search, of its candidate j, and every candidate j' < j
\* is marked processed; every candidate that was cancelled has a learning rate
\* below the committed one; and while the flag is active learningRateStar_
\* does not change any more.
C22_KillOnlyAfterLargerProcessed ==
    /\ [](\A w \in Workers :
            task[w].pc = "kill" =>
                /\ hist.commits # <<>>
                /\ Back(hist.commits) = task[w].alphaExp
                /\ learningRateStar_ = task[w].learningRate
                /\ \A i \in 0..(task[w].alphaExp - 1) : At(alphaProcessed_, i))
    /\ [](\A e \in hist.cancelled : LearningRateOf(e) < learningRateStar_)
    /\ [][killIntegration => learningRateStar_' = learningRateStar_]_vars

\* the second candidate was committed after the first had failed the test, and
\* the rollout of the third was cancelled
C22_Witness ==
    /\ hist.joined
    /\ hist.commits = <<1>>
    /\ 2 \in hist.cancelled
    /\ learningRateStar_ = LearningRateOf(1)

\* ---- C23
\* merit is below baseline scaled by (1 - 1e-3 * learningRate)
BelowScaledBaseline(merit, baseline, learningRate) ==
    ArmijoInv * AlphaDen * merit < baseline * (ArmijoInv * AlphaDen - learningRate)

\* the shared result of the line search
SharedResult ==
    <<learningRateStar_, performanceVars, nominalControllersStock_, nominalVars>>

\* C23: every step of a running line search that changes the shared result is
\* the commit of a candidate whose merit is below the baseline merit of this
\* line search scaled by (1 - 1e-3 * learningRate) and whose learning rate is
\* above learningRateStar_ as it was; learningRateStar_ never decreases while
\* the tasks run; after the return a positive learningRateStar_ has a nominal
\* merit below the scaled baseline, and learningRateStar_ = 0 has the merit and
\* the trajectories of the baseline.
C23_CommitsDescendAndGrow ==
    /\ [][(pc = "lineSearchJoin" /\ pc' = "lineSearchJoin" /\ SharedResult' # SharedResult) =>
            \E w \in Workers :
                /\ task[w].pc = "commit"
                /\ task'[w].pc # "commit"
                /\ BelowScaledBaseline(task[w].totalCost, baselineTotalCost_,
                                       task[w].learningRate)
                /\ task[w].learningRate > learningRateStar_
                /\ learningRateStar_' = task[w].learningRate
                /\ nominalTotalCost_' = task[w].totalCost]_vars
    /\ [][pc = "lineSearchJoin" => learningRateStar_' >= learningRateStar_]_vars
    /\ [](pc = "lineSearchJoin" =>
            baselineTotalCost_ = SpecifiedMerit(EvaluationOf(hist.baseline.time,
                                                            hist.baseline.input)))
    /\ [](hist.joined =>
            /\ learningRateStar_ > 0 =>
                  BelowScaledBaseline(nominalTotalCost_, baselineTotalCost_, learningRateStar_)
            /\ learningRateStar_ = 0 =>
                  /\ nominalTotalCost_ = baselineTotalCost_
                  /\ NominalTrajectories = hist.baseline)

\* two commits were made in one line search, of a baseline with a positive merit
C23_Witness ==
    /\ hist.joined
    /\ Len(hist.commits) = 2
    /\ baselineTotalCost_ > 0
    /\ learningRateStar_ > LearningRateOf(hist.commits[1])

\* ---- C24
\* C24: the kill flag is active only while the tasks of a line search run, so
\* it is inactive when lineSearch has returned, early or after the search, and
\* when the rollout of runInit or a baseline rollout runs; it is cleared only
\* by the calling thread once every task has finished.
C24_KillFlagOnlyInsideLineSearch ==
    /\ [](pc # "lineSearchJoin" => ~killIntegration)
    /\ [][(killIntegration /\ ~killIntegration') =>
            /\ pc = "lineSearchJoin"
            /\ pc' = call.ret
            /\ \A w \in Workers : task[w].pc \in {"idle", "done"}]_vars
    /\ [][(pc \in {"runInit", "lineSearch"} /\ hist'.rollouts # hist.rollouts) =>
            ~killIntegration]_vars

\* the final line search of a solve has returned after its flag had been
\* active and had cancelled a rollout, the line search before it likewise
C24_Witness ==
    /\ pc = "final"
    /\ ~killIntegration
    /\ hist.cancelled # {}
    /\ iteration_ = 1
    /\ hist.stops # <<>>

\* ---- C25
\* the controllers the shared result holds when they are those of stock: as
\* they are while the tasks run, with the increments cleared after the return
SharedControllersAre(stock) ==
    nominalControllersStock_ = IF hist.joined THEN ClearDeltaBias(stock) ELSE stock

\* the performance members are those of one evaluation
PerformanceOf(ev) ==
    /\ nominalTotalCost_ = MeritOf(ev)
    /\ stateInputEqConstraintISE_ = ev.ISE1
    /\ stateEqConstraintISE_ = ev.ISE2
    /\ stateEqFinalConstraintISE_ = ev.ISE2Final
    /\ inequalityConstraintPenalty_ = ev.penalty

\* the rollout of the candidate alphaExp of this line search
CandidateRollout(alphaExp) ==
    rolloutTrajectory(CandidateControllers(LearningRateOf(alphaExp)), TRUE)

\* every part of the shared result is that of the candidate alphaExp
SharedFromCandidate(alphaExp) ==
    \E out \in {CandidateRollout(alphaExp)} :
        /\ learningRateStar_ = LearningRateOf(alphaExp)
        /\ SharedControllersAre(CandidateControllers(LearningRateOf(alphaExp)))
        /\ NominalTrajectories =
              [time |-> out.time, postEvent |-> out.postEvent, state |-> out.state,
               input |-> out.input, modelData |-> out.modelData]
        /\ EvaluationKey(out) \in DOMAIN evaluated
        /\ evaluated[EvaluationKey(out)].throws = "none"
        /\ PerformanceOf(evaluated[EvaluationKey(out)].ev)

\* every part of the shared result is that of the baseline
SharedFromBaseline ==
    /\ learningRateStar_ = 0
    /\ SharedControllersAre(initLScontrollersStock_)
    /\ NominalTrajectories = hist.baseline
    /\ PerformanceOf(EvaluationOf(hist.baseline.time, hist.baseline.input))

\* C25: while the tasks of a line search run and after it has returned, the
\* learning rate, the merit, the constraint ISEs and the penalty, the nominal
\* trajectories, the model data and the controllers of the shared result are
\* all those of one candidate, or all those of the baseline.
C25_SharedResultFromOneEvaluation ==
    (pc = "lineSearchJoin" \/ hist.joined) =>
        \/ SharedFromBaseline
        \/ \E alphaExp \in 0..MaxAlphaExp :
              LearningRateAdmissible(alphaExp) /\ SharedFromCandidate(alphaExp)

\* two tasks have committed one after the other, and the evaluation of the
\* candidate that was replaced differs from the one that stayed in its
\* state-only ISE and in its penalty
C25_Witness ==
    /\ hist.joined
    /\ hist.commits = <<1, 0>>
    /\ stateEqConstraintISE_ = 0
    /\ inequalityConstraintPenalty_ = 1
    /\ \E out \in {CandidateRollout(1)} :
          /\ evaluated[EvaluationKey(out)].ev.ISE2 = 1
          /\ evaluated[EvaluationKey(out)].ev.penalty = 0

\* ---- C26
\* controller is base with its feed-forward part moved by learningRate times
\* the increment of base, and with the increments kept or cleared
BiasMovedBy(controller, base, learningRate, cleared) ==
    /\ controller.timeStamp_ = base.timeStamp_
    /\ controller.gainArray_ = base.gainArray_
    /\ Len(controller.biasArray_) = Len(base.biasArray_)
    /\ \A k \in 1..Len(base.timeStamp_) :
          controller.biasArray_[k]
              = base.biasArray_[k] + learningRate * base.deltaBiasArray_[k]
    /\ controller.deltaBiasArray_ = IF cleared THEN <<>> ELSE base.deltaBiasArray_

StockMovedBy(stock, learningRate, cleared) ==
    /\ Len(stock) = Len(initLScontrollersStock_)
    /\ Len(stock) = numPartitions_
    /\ \A i \in 1..Len(stock) :
          BiasMovedBy(stock[i], initLScontrollersStock_[i], learningRate, cleared)

\* the committed controllers as lineSearch leaves them
CommittedControllers == StockMovedBy(nominalControllersStock_, learningRateStar_, TRUE)

\* C26: every candidate a task has rolled out is the baseline captured before
\* the tasks started with its bias moved by the learning rate times the
\* increment, whatever the task evaluated before and whatever was committed;
\* the captured baseline stays while the tasks run; and when lineSearch
\* returns, early or after the search, the committed controllers are the
\* baseline moved by learningRateStar_, with the increments of every partition
\* cleared.
C26_CandidatesBuiltOnBaseline ==
    /\ [](\A w \in Workers : task[w].pc = "commit" =>
              StockMovedBy(task[w].controllersStock, task[w].learningRate, FALSE))
    /\ [][pc = "lineSearchJoin" =>
              initLScontrollersStock_' = initLScontrollersStock_]_vars
    /\ [][(pc \in {"lineSearch", "lineSearchJoin"} /\ pc' \in {"iteration", "final"}) =>
              CommittedControllers']_vars

\* a single task rolled out the largest candidate, which was not taken, then
\* the next one, which was committed, and lineSearch has returned
C26_Witness ==
    /\ hist.joined
    /\ pc \in {"iteration", "final"}
    /\ ddpSettings_.nThreads_ = 1
    /\ hist.commits = <<1>>
    /\ CommittedControllers
    /\ nominalControllersStock_ # ClearDeltaBias(initLScontrollersStock_)

\* ---- C27
\* floor(log(alpha_min / alpha_max) / log(r)) + 1 for r = 1 / ContractionInv
CandidateBound ==
    FloorLog(ddpSettings_.maxLearningRate_, ddpSettings_.minLearningRate_) + 1

\* how far a task is from the end of the pass of its loop it is in
StepsOfPass(where) ==
    CASE where = "compare" -> 4
      [] where = "rollout" -> 3
      [] where = "commit" -> 2
      [] where = "spawned" -> 2
      [] where = "claim" -> 1
      [] where = "kill" -> 1
      [] OTHER -> 0

RECURSIVE StepsOfPasses(_)
StepsOfPasses(workers) ==
    IF workers = {} THEN 0
    ELSE LET w == CHOOSE v \in workers : TRUE
         IN  StepsOfPass(task[w].pc) + StepsOfPasses(workers \ {w})

\* a bound on the steps the tasks of the running line search still take: the
\* claims left, each followed by at most four more steps of its pass
StepsLeft ==
    5 * (CandidateBound + ddpSettings_.nThreads_ - alphaExpNext_) + StepsOfPasses(Workers)

\* C27: while the tasks of a line search run, every step of a task lowers a
\* bound that never is negative, and a task that has not finished can take
\* its next step, so the line search ends under every interleaving; no index
\* is claimed twice; and every candidate rollout is that of an index below
\* floor(log(alpha_min / alpha_max) / log(r)) + 1 that was not rolled out
\* before, so there are at most that many.
C27_LineSearchTerminates ==
    /\ [](pc = "lineSearchJoin" =>
            /\ alphaExpNext_ <= CandidateBound + ddpSettings_.nThreads_
            /\ StepsLeft >= 0
            /\ hist.alphaStarSeen # {}
            /\ \A w \in Workers :
                  task[w].pc \in {"idle", "spawned", "claim", "compare", "rollout",
                                  "commit", "kill", "done"})
    /\ [][(pc = "lineSearchJoin" /\ pc' = "lineSearchJoin") => StepsLeft' < StepsLeft]_vars
    /\ [](\A i, j \in 1..Len(hist.claimed) : i # j => hist.claimed[i] # hist.claimed[j])
    /\ [](\A v, w \in Workers :
            (v # w /\ task[v].pc \in {"compare", "rollout", "commit", "kill"}
                   /\ task[w].pc \in {"compare", "rollout", "commit", "kill"}) =>
               task[v].alphaExp # task[w].alphaExp)
    /\ [][\A w \in Workers : (task[w].pc = "rollout" /\ task'[w].pc # "rollout") =>
            /\ task[w].alphaExp \notin DOMAIN hist.natural
            /\ task[w].alphaExp < CandidateBound
            /\ DOMAIN hist'.natural = DOMAIN hist.natural \cup {task[w].alphaExp}]_vars
    /\ [](pc = "lineSearchJoin" => DOMAIN hist.natural \subseteq 0..(CandidateBound - 1))

\* a line search of two tasks has ended after every candidate was rolled out
C27_Witness ==
    /\ hist.joined
    /\ ddpSettings_.nThreads_ = 2
    /\ DOMAIN hist.natural = 0..(CandidateBound - 1)
    /\ Len(hist.claimed) = CandidateBound + 2

\* ---- C28
\* N_i, the number of nodes of partition i
NodesOf(i) == Len(At(nominalTimeTrajectoriesStock_, i))

\* the tasks that hold a node they have claimed and not yet finished
Working == {w \in Workers : sectionTask[w].pc = "work"}

\* every node of partition i has been worked on
PartitionFinished(i) ==
    \A k \in 0..(NodesOf(i) - 1) : <<i, k>> \in DOMAIN parallel.processed

\* C28: in the LQ approximation no node is worked on twice, none at an index
\* N_i or larger; a node a task holds is held by no other task and has not
\* been worked on; when the loop has passed partition i each of its nodes has
\* been worked on; and while a node of partition i is held or has been worked
\* on, every partition before i is finished.  After the last partition every
\* sample of the model data is approximated.
C28_EveryNodeOnce ==
    pc = "approximate" =>
        /\ \A node \in DOMAIN parallel.processed :
              /\ node[1] \in 0..(numPartitions_ - 1)
              /\ node[1] <= parallel.i
              /\ node[2] \in 0..(NodesOf(node[1]) - 1)
              /\ parallel.processed[node] = 1
        /\ \A i \in 0..(parallel.i - 1) : PartitionFinished(i)
        /\ \A w \in Working :
              /\ parallel.kind = "lq"
              /\ sectionTask[w].timeIndex \in 0..(NodesOf(parallel.i) - 1)
              /\ <<parallel.i, sectionTask[w].timeIndex>> \notin DOMAIN parallel.processed
              /\ \A v \in Working \ {w} :
                    sectionTask[v].timeIndex # sectionTask[w].timeIndex
        /\ (parallel.kind = "none" /\ parallel.i = numPartitions_) =>
              modelDataTrajectoriesStock_
                  = approximateOptimalControlProblem(modelDataTrajectoriesStock_)

\* the first partition is finished and two tasks, which drew their ids in
\* the other order, hold two nodes of the second one, of which a sample is
\* not approximated yet
C28_Witness ==
    /\ pc = "approximate"
    /\ parallel.kind = "lq"
    /\ parallel.i = 1
    /\ NodesOf(0) > 0
    /\ PartitionFinished(0)
    /\ Working = {0, 1}
    /\ sectionTask[0].taskId = 1
    /\ modelDataTrajectoriesStock_
          # approximateOptimalControlProblem(modelDataTrajectoriesStock_)

\* ---- C29
\* the ids of the tasks that have drawn one and have not finished: those of
\* a line search, and those of a section of runIteration
LineSearchIds ==
    [w \in {v \in Workers :
                task[v].pc \in {"claim", "compare", "rollout", "commit", "kill"}} |->
        task[w].taskId]

SectionIds ==
    [w \in {v \in Workers : sectionTask[v].pc \in {"claim", "work"}} |->
        sectionTask[w].taskId]

\* the ids are pairwise distinct and index a stock of nThreads_ clones
DistinctCloneIds(ids) ==
    /\ \A w \in DOMAIN ids : ids[w] \in 0..(ddpSettings_.nThreads_ - 1)
    /\ \A v, w \in DOMAIN ids : v # w => ids[v] # ids[w]

\* C29: in the line search, the LQ approximation, the backward pass and the
\* controller computation the task ids of the tasks running at the same time
\* are pairwise distinct and lie in 0..nThreads_ - 1, so no two of them use
\* the same per-worker clone.
C29_TaskIdsDistinct ==
    /\ DistinctCloneIds(LineSearchIds)
    /\ DistinctCloneIds(SectionIds)
    /\ (DOMAIN LineSearchIds = {} \/ DOMAIN SectionIds = {})

\* two tasks of the controller computation hold a node each, with the ids
\* drawn in the other order than in the line search just before
C29_Witness ==
    /\ pc = "controller"
    /\ parallel.kind = "controller"
    /\ sectionTask[0].pc = "work"
    /\ sectionTask[1].pc = "work"
    /\ sectionTask[0].taskId = 1
    /\ sectionTask[1].taskId = 0
    /\ hist.joined

\* ---- C30
\* the tasks of a line search or of a section of runIteration are running
ParallelSectionRunning ==
    \/ pc = "lineSearchJoin"
    \/ parallel.kind # "none"

\* C30 (as stated): while a parallel section of solve runs, the final line
\* search included, Eigen runs on one thread, and when solve has returned or
\* failed Eigen is back at its default.
C30_BackEndSingleThreaded ==
    /\ ParallelSectionRunning => eigenNbThreads = 1
    /\ (pc = "idle" /\ hist.calls > 0) => eigenNbThreads = 0

\* ---- C31
\* the partitions of worker w (counted from 1) of the backward pass
RangeOf(w) == startingIndicesRiccatiWorker_[w]..endingIndicesRiccatiWorker_[w]

ActiveIn(w) == RangeOf(w) \cap (initActivePartition_..finalActivePartition_)

\* C31: once distributeWork has run, the ranges of the nThreads_ workers are
\* pairwise disjoint, each ends right below the start of the one before it,
\* worker 0 owning the last partition and the last worker partition 0, they
\* cover 0..numPartitions_ - 1 exactly, and the numbers of active partitions
\* of two workers differ by one at most.
C31_WorkDistributed ==
    pc = "runInit" =>
        \E N \in {ddpSettings_.nThreads_} :
            /\ Len(startingIndicesRiccatiWorker_) = N
            /\ Len(endingIndicesRiccatiWorker_) = N
            /\ endingIndicesRiccatiWorker_[1] = numPartitions_ - 1
            /\ startingIndicesRiccatiWorker_[N] = 0
            /\ \A w \in 1..(N - 1) :
                  endingIndicesRiccatiWorker_[w + 1] = startingIndicesRiccatiWorker_[w] - 1
            /\ \A w \in 1..N :
                  startingIndicesRiccatiWorker_[w] <= endingIndicesRiccatiWorker_[w] + 1
            /\ \A v, w \in 1..N : v # w => RangeOf(v) \cap RangeOf(w) = {}
            /\ UNION {RangeOf(w) : w \in 1..N} = 0..(numPartitions_ - 1)
            /\ \A v, w \in 1..N :
                  Cardinality(ActiveIn(v)) - Cardinality(ActiveIn(w)) \in {0 - 1, 0, 1}

\* three workers on four partitions of which the two in the middle are
\* active: one worker is left without an active partition
C31_Witness ==
    /\ pc = "runInit"
    /\ ddpSettings_.nThreads_ = 3
    /\ numPartitions_ = 4
    /\ initActivePartition_ = 1
    /\ finalActivePartition_ = 2
    /\ RangeOf(1) = {2, 3}
    /\ RangeOf(2) = {1}
    /\ RangeOf(3) = {0}

\* ---- C32
\* the end of the scan that starts at partition i with a non-empty controller
\* and stops before the first empty one
RECURSIVE ScanEnd(_, _)
ScanEnd(controllersStock, i) ==
    IF i < finalActivePartition_ /\ ~ControllerEmpty(At(controllersStock, i + 1))
    THEN ScanEnd(controllersStock, i + 1) ELSE i

EventsFrom(t) == {e \in Range(eventTimes) : e >= t}

\* partition i of the rollout has inputs of the controller c and operating
\* points only, and starts with an input of c if its controller interval is
\* not empty
RolledOutWith(i, c, till, input) ==
    LET t0 == IF i = initActivePartition_ THEN initTime_ ELSE At(partitioningTimes_, i)
        tf == IF i = finalActivePartition_ THEN finalTime_ ELSE At(partitioningTimes_, i + 1)
    IN  /\ \A k \in 1..Len(input) : input[k] \in {OperatingPoint, ControllerSample(c)}
        /\ IF t0 < Min(till, tf) THEN input[1] = ControllerSample(c)
           ELSE \A k \in 1..Len(input) : input[k] = OperatingPoint

\* C32: in the rollout of runInit with a non-empty controller in partition
\* initActive, controllerAvailableTill is the last time stamp of the last
\* controller of the unbroken run of non-empty controllers from initActive,
\* useControllerTill is the earliest event at or after it, capped by the
\* final time, or the final time when there is none, and a partition after
\* the run is rolled out with the last controller of the run.
C32_ControllerScan ==
    [][(pc = "runInit"
            /\ ~ControllerEmpty(At(nominalControllersStock_, initActivePartition_))) =>
          \E last \in {ScanEnd(nominalControllersStock_, initActivePartition_)} :
          \E available \in {Back(At(nominalControllersStock_, last).timeStamp_)} :
          \E till \in {IF EventsFrom(available) = {} THEN finalTime_
                        ELSE Min(CHOOSE e \in EventsFrom(available) :
                                    \A f \in EventsFrom(available) : e <= f, finalTime_)} :
              /\ ControllerAvailableTill(nominalControllersStock_) = available
              /\ UseControllerTill(nominalControllersStock_) = till
              /\ \A i \in initActivePartition_..finalActivePartition_ :
                    RolledOutWith(i, At(nominalControllersStock_, Min(i, last)), till,
                                  At(nominalInputTrajectoriesStock_', i))]_vars

\* runInit has rolled out three partitions of which the first and the last
\* had a controller and the second had none: the second starts with inputs
\* of the controller of the first and ends with operating points, and the
\* third has operating points only
C32_Witness ==
    /\ pc # "runInit"
    /\ hist.rollouts = 1
    /\ numPartitions_ = ScanPartitions
    /\ initActivePartition_ = 0
    /\ finalActivePartition_ = 2
    /\ eventTimes = <<PartitionLen + 1>>
    /\ ~ControllerEmpty(call.args.controllersPtrStock[1].controller)
    /\ ControllerEmpty(call.args.controllersPtrStock[2].controller)
    /\ ~ControllerEmpty(call.args.controllersPtrStock[3].controller)
    /\ At(nominalInputTrajectoriesStock_, 1)[1] = 1
    /\ Back(At(nominalInputTrajectoriesStock_, 1)) = OperatingPoint
    /\ \A k \in 1..Len(At(nominalInputTrajectoriesStock_, 2)) :
          At(nominalInputTrajectoriesStock_, 2)[k] = OperatingPoint

\* ---- C33
\* the runs tile [initTime_, finalTime_] in partition order, each starts
\* with the state the one before returned, and no controller run follows a
\* run of operating points
Tiling(runs) ==
    /\ runs # <<>>
    /\ runs[1].from = initTime_
    /\ Back(runs).to = finalTime_
    /\ \A k \in 1..Len(runs) : runs[k].from < runs[k].to
    /\ \A k \in 1..(Len(runs) - 1) :
          /\ runs[k + 1].from = runs[k].to
          /\ runs[k + 1].x0 = runs[k].xf
          /\ runs[k + 1].partition >= runs[k].partition
          /\ runs[k].kind = "operatingPoints" => runs[k + 1].kind = "operatingPoints"

\* the time stamps of partition i start where its first run starts and end
\* where its last run ends
SpansRuns(runs, i, time) ==
    LET mine == {k \in 1..Len(runs) : runs[k].partition = i}
    IN  /\ mine # {}
        /\ time # <<>>
        /\ \E k \in mine : runs[k].from = time[1] /\ \A l \in mine : k <= l
        /\ \E k \in mine : runs[k].to = Back(time) /\ \A l \in mine : l <= k

\* C33: the controller and operating-point intervals of the rollout of
\* runInit, in partition order, tile [initTime_, finalTime_], each starts
\* from the state at the end of the one before, none uses the controller
\* after one that used the operating points, and each active partition of
\* the rollout spans its intervals.
C33_IntervalsTile ==
    [][(pc = "runInit" /\ initTime_ < finalTime_) =>
          \E runs \in {RolloutRuns(nominalControllersStock_, initActivePartition_, 0)} :
              /\ Tiling(runs)
              /\ \A i \in initActivePartition_..finalActivePartition_ :
                    SpansRuns(runs, i, At(nominalTimeTrajectoriesStock_', i))]_vars

\* runInit has rolled out three partitions in four intervals: the controller
\* in the first partition and in the start of the second, the operating
\* points in the rest of the second and in the third
C33_Witness ==
    /\ pc # "runInit"
    /\ hist.rollouts = 1
    /\ numPartitions_ = ScanPartitions
    /\ \E runs \in {RolloutRuns(EmplacedControllers(call.args.controllersPtrStock), 0, 0)} :
          /\ [k \in 1..Len(runs) |-> runs[k].kind]
                = <<"controller", "controller", "operatingPoints", "operatingPoints">>
          /\ [k \in 1..Len(runs) |-> runs[k].partition] = <<0, 1, 1, 2>>
          /\ Tiling(runs)
          /\ \A i \in 0..2 : SpansRuns(runs, i, At(nominalTimeTrajectoriesStock_, i))

\* ---- C34
\* time, state, input and post-event indices of partition i of the stocks
PartitionOf(stocks, i) ==
    [time |-> At(stocks.time, i), postEvent |-> At(stocks.postEvent, i),
     state |-> At(stocks.state, i), input |-> At(stocks.input, i)]

StrictlyIncreasing(indices) ==
    \A k \in 1..(Len(indices) - 1) : indices[k] < indices[k + 1]

\* new is old followed by one sample and by the samples of nom after
\* index seg, and the post-event indices of nom after seg are appended,
\* shifted by oldSize - seg, each designating the sample it designated in nom
ExtendedFrom(old, nom, new, seg) ==
    LET oldSize == Len(old.time)
        later == SelectSeq(nom.postEvent, LAMBDA ind : ind > seg)
        tailOf(x) == SubSeq(x, seg + 2, Len(x))
        extended(a, b, c) == /\ Len(c) = oldSize + 1 + Len(tailOf(b))
                             /\ SubSeq(c, 1, oldSize) = a
                             /\ SubSeq(c, oldSize + 2, Len(c)) = tailOf(b)
    IN  /\ extended(old.time, nom.time, new.time)
        /\ extended(old.state, nom.state, new.state)
        /\ extended(old.input, nom.input, new.input)
        /\ Back(new.time) = Back(nom.time)
        /\ new.postEvent
              = old.postEvent \o [k \in 1..Len(later) |-> later[k] - seg + oldSize]
        /\ \A k \in 1..Len(later) :
              \E ind \in {later[k]}, shifted \in {later[k] - seg + oldSize} :
                  /\ shifted < Len(new.time)
                  /\ At(new.time, shifted) = At(nom.time, ind)
                  /\ At(new.state, shifted) = At(nom.state, ind)
                  /\ At(new.input, shifted) = At(nom.input, ind)
        /\ StrictlyIncreasing(new.postEvent)
        /\ \A k \in 1..Len(new.postEvent) :
              new.postEvent[k] > 0 /\ new.postEvent[k] < Len(new.time)

CorrectedAsClaimed(old, nom, new) ==
    IF old.time = <<>> THEN new = nom
    ELSE IF Back(old.time) < Back(nom.time)
    THEN \E seg \in 0..(Len(nom.time) - 1) : ExtendedFrom(old, nom, new, seg)
    ELSE new = old

\* C34: when runInit has swapped, rolled out and corrected the cache, each
\* active partition of the cache is the nominal one if it was empty, is
\* extended up to the nominal last time with its old samples kept and the
\* appended post-event indices designating the samples they designated in
\* the nominal partition if it ended earlier, and is unchanged otherwise.
C34_CacheCorrected ==
    [][(pc = "runInit" /\ pc' = "loop") =>
          \A i \in initActivePartition_..finalActivePartition_ :
              CorrectedAsClaimed(PartitionOf(NominalTrajectories, i),
                                 PartitionOf(NominalTrajectories', i),
                                 PartitionOf(CachedTrajectories', i))]_vars

\* the runInit of a second solve has extended a cached partition that ended
\* earlier than the rollout and has appended a post-event index to it
C34_Witness ==
    /\ pc = "loop"
    /\ hist.calls = 2
    /\ hist.rollouts = 1
    /\ \E i \in initActivePartition_..finalActivePartition_ :
          \E old \in {PartitionOf(hist.before.nominal, i)} :
              /\ old.time # <<>>
              /\ Back(old.time) < Back(At(nominalTimeTrajectoriesStock_, i))
              /\ Len(At(cachedTimeTrajectoriesStock_, i)) > Len(old.time) + 1
              /\ Len(At(cachedPostEventIndicesStock_, i)) > Len(old.postEvent)
              /\ StrictlyIncreasing(At(cachedPostEventIndicesStock_, i))

\* ---- C35
\* C35: after the swap of the nominal stocks into the cache (runIteration,
\* the final line search) and after the correction of the cache in runInit,
\* the time, state, input and model-data sequences of each active partition
\* of the cache have the same length.
C35_CachedSameShape ==
    pc \in {"loop", "lineSearch"} =>
        \A i \in initActivePartition_..finalActivePartition_ :
            /\ Len(At(cachedStateTrajectoriesStock_, i)) = Len(At(cachedTimeTrajectoriesStock_, i))
            /\ Len(At(cachedInputTrajectoriesStock_, i)) = Len(At(cachedTimeTrajectoriesStock_, i))
            /\ Len(At(cachedModelDataTrajectoriesStock_, i))
                  = Len(At(cachedTimeTrajectoriesStock_, i))

\* ---- C36
\* the stage that may follow each stage of a solve: runInit, then iterations
\* of cache-swap, line search and the backward stages, then one cache-swap
\* and the final line search
StageOrder ==
    /\ pc = "idle" => pc' \in {"idle", "runInit"}
    /\ pc = "runInit" => pc' \in {"loop", "idle"}
    /\ pc = "loop" =>
          /\ pc' = "lineSearch"
          /\ call'.ret \in {"iteration", "final"}
          /\ call'.ret = "iteration" <=> iteration_' = iteration_ + 1
          /\ CachedTrajectories' = NominalTrajectories
          /\ NominalTrajectories' = CachedTrajectories
    /\ pc \in {"lineSearch", "lineSearchJoin"} =>
          /\ pc' \in {"lineSearchJoin", call.ret, "idle"}
          /\ pc' = "idle" => thrown' # "none"
    /\ pc = "iteration" => pc' = "loop"
    /\ pc = "final" => pc' = "idle" /\ thrown' = "none"

\* the controllers are as the controller computation left them on the
\* trajectories that the cache-swap has moved into the cache
ControllersJustComputed ==
    \A i \in 0..(numPartitions_ - 1) :
        IF i \in initActivePartition_..finalActivePartition_
        THEN /\ At(nominalControllersStock_, i).timeStamp_ = At(cachedTimeTrajectoriesStock_, i)
             /\ At(nominalControllersStock_, i).deltaBiasArray_
                   = Fill(Len(At(cachedTimeTrajectoriesStock_, i)), 1)
        ELSE At(nominalControllersStock_, i) = EmptyController

IncrementsAsLongAsTimeStamps(controllersStock) ==
    \A k \in 1..Len(controllersStock) :
        Len(controllersStock[k].deltaBiasArray_) = Len(controllersStock[k].timeStamp_)

\* C36: the stages of a solve follow each other in the order runInit,
\* iterations of cache-swap, line search, LQ approximation, Riccati and
\* controller computation, then one cache-swap and the final line search;
\* each line search starts on controllers just computed, and the
\* controllers the line-search workers read have as many feed-forward
\* increments as time stamps.
C36_StagesInOrder ==
    /\ [][StageOrder]_vars
    /\ [](pc = "lineSearch" =>
             ControllersJustComputed /\ IncrementsAsLongAsTimeStamps(nominalControllersStock_))
    /\ [](pc = "lineSearchJoin" => IncrementsAsLongAsTimeStamps(initLScontrollersStock_))

\* the workers of the final line search run after two iterations on
\* controllers that have time stamps
C36_Witness ==
    /\ pc = "lineSearchJoin"
    /\ call.ret = "final"
    /\ iteration_ = 2
    /\ \E k \in 1..Len(initLScontrollersStock_) :
          /\ initLScontrollersStock_[k].timeStamp_ # <<>>
          /\ Len(initLScontrollersStock_[k].deltaBiasArray_)
                = Len(initLScontrollersStock_[k].timeStamp_)

\* ---- C37
\* the policy of the claim: the projection when useMakePSD_ is on, the added
\* diagonal otherwise
SamePolicy(pairs) ==
    \A pair \in pairs :
        pair[2] = IF ddpSettings_.useMakePSD_ THEN Max(pair[1], 0)
                  ELSE pair[1] + ddpSettings_.addedRiccatiDiagonal_

\* C37: the Qm of every node, the QmFinal of every event after its
\* augmentation and the terminal Sm that the LQ step stores are the
\* projection of the matrix when useMakePSD_ is on and the matrix with
\* addedRiccatiDiagonal_ on its diagonal otherwise.
C37_SamePolicyEverywhere ==
    /\ SamePolicy(hist.lq.node)
    /\ SamePolicy(hist.lq.event)
    /\ SamePolicy(hist.lq.terminal)

\* ---- C38
\* after is before moved down by k partitions, with x in the last k
ShiftedBy(before, after, k, x) ==
    /\ Len(after) = Len(before)
    /\ \A i \in 0..(numPartitions_ - 1) :
          At(after, i) = IF i < numPartitions_ - k THEN At(before, i + k) ELSE x

\* the slots the loop has written before its step i: the slots of the
\* earlier steps and, for a swap, their partners
WrittenBefore(i, k, swaps) ==
    {j \in 0..(i - 1) : TRUE}
        \cup (IF swaps THEN {j + k : j \in {l \in 0..(i - 1) : l < numPartitions_ - k}}
              ELSE {})

\* C38: a rewindOptimizer(k) with 0 < k <= numPartitions_ leaves in each
\* partition i < numPartitions_ - k the controller and the Riccati seed that
\* partition i + k held, and an empty controller and a zero seed in the
\* others; the slot i + k a step of the loop takes its value from has not
\* been written by an earlier step.
C38_RewindShifts ==
    [][(pc = "idle" /\ hist'.op = "rewind" /\ hist'.calls = hist.calls + 1
            /\ numPartitions_ >= 1 /\ hist'.firstIndex \in 1..numPartitions_
            /\ StocksCoverPartitions) =>
          \E k \in {hist'.firstIndex} :
              /\ ShiftedBy(nominalControllersStock_, nominalControllersStock_', k,
                           EmptyController)
              /\ ShiftedBy(SmFinalStock_, SmFinalStock_', k, 0)
              /\ ShiftedBy(SvFinalStock_, SvFinalStock_', k, 0)
              /\ ShiftedBy(SveFinalStock_, SveFinalStock_', k, 0)
              /\ ShiftedBy(sFinalStock_, sFinalStock_', k, 0)
              /\ ShiftedBy(xFinalStock_, xFinalStock_', k, 0)
              /\ \A i \in 0..(numPartitions_ - k - 1), swaps \in BOOLEAN :
                    (i + k) \notin WrittenBefore(i, k, swaps)]_vars

\* rewindOptimizer(1) on four partitions that all had a controller: the
\* second step of the loop swaps a slot the first has written, and the
\* controllers of partitions 1 to 3 are now in partitions 0 to 2
C38_Witness ==
    /\ pc = "idle"
    /\ hist.op = "rewind"
    /\ hist.firstIndex = 1
    /\ numPartitions_ = 4
    /\ \A i \in 0..3 : ~ControllerEmpty(At(hist.before.nominalControllersStock_, i))
    /\ \A i \in 0..2 :
          /\ At(nominalControllersStock_, i) = At(hist.before.nominalControllersStock_, i + 1)
          /\ At(SmFinalStock_, i) = At(hist.before.SmFinalStock_, i + 1)
    /\ At(hist.before.SmFinalStock_, 0) # At(hist.before.SmFinalStock_, 1)
    /\ ControllerEmpty(At(nominalControllersStock_, 3))
    /\ At(SmFinalStock_, 3) = 0

\* ---- C39
\* the exponents a worker may evaluate: those whose learning rate passes line 845
AdmissibleExponents == {j \in 0..(MaxAlphaExp + 1) : LearningRateAdmissible(j)}

\* C39: every exponent a line-search worker evaluates and marks as processed
\* is an index of alphaProcessed_: while the line search runs, the exponents
\* whose learning rate is at least minLearningRate_ are exactly
\* 0..L-1 for the length L of alphaProcessed_, and no worker writes past the
\* end of the vector.
C39_IndicesWithinArray ==
    /\ ~hist.outOfRange
    /\ \A w \in Workers :
          task[w].pc \in {"compare", "rollout", "commit"} =>
             task[w].alphaExp < Len(alphaProcessed_)
    /\ pc = "lineSearchJoin" =>
          AdmissibleExponents = 0..(Len(alphaProcessed_) - 1)

\* ---- C40
\* C40: rewindOptimizer(firstIndex) with firstIndex > numPartitions_ fails and
\* leaves the whole optimizer state as it was, the rewind counter included
\* (so that rewindCounter_ sums firstIndex over the rewinds that succeeded).
C40_FailedRewindChangesNothing ==
    (hist.op = "rewind" /\ thrown = "RewindIndexTooLarge") =>
       /\ StoredState = hist.before
       /\ rewindCounter_ = hist.before.rewindCounter_

====
